---- MODULE Spec2Model ----
(***************************************************************************)
(* glyph: symbol outlines of source files.                                 *)
(*                                                                         *)
(* Text is a sequence of tokens.  Text that comes from a file (content,    *)
(* names, signatures) and file paths are sequences of one-character        *)
(* strings; the fixed pieces of a format string and the kind of a symbol   *)
(* are one token each.  The parser and the query engine (tree-sitter) are  *)
(* outside the repository: a parsed file is given by the matches the       *)
(* engine yields for each category, each match a sequence of captures      *)
(* [cname, sb, eb, sr, er] (capture name, start/end byte, start/end row).  *)
(***************************************************************************)
EXTENDS Integers, Sequences, FiniteSets, TLC

VARIABLES
    pattern,      \* the caller's pattern
    detail,       \* the DetailLevel of the call (ParseDetailLevel's result)
    found,        \* what FindFiles returns: [err, files]
    faulty,       \* file system: paths whose read fails
    unparsable,   \* parser: paths whose parse returns an error
    badQuery,     \* query engine: <<language, category>> pairs that do not compile
    pc,           \* position in ExtractSymbols: "start", "loop", "done"
    idx,          \* index of the next file of the loop
    allSymbols,   \* ExtractSymbols' allSymbols
    ords,         \* the category iteration order used for each processed file
    parserLang,   \* the grammar set on the extractor's parser
    reads,        \* number of ReadFile calls of this call
    formats,      \* number of FormatSymbols calls of this call
    result,       \* the (string, error) pair returned: [err, text]
    calls,        \* number of completed calls
    prev,         \* result of the previous call
    sig,          \* signature workbench: [content, sb, eb, std, full]
    level,        \* ParseDetailLevel workbench: [detail, out, done]
    page,         \* FormatSymbols workbench: [symbols, detail, order, text, done]
    find,         \* FindFiles workbench: [pattern, files, denied, walks, err, out]
    lookup,       \* language lookups workbench: [path, grammar, queries, done]
    front         \* a front end: [end, given, pattern, files, at, error, extracted]

vars == <<pattern, detail, found, faulty, unparsable, badQuery, pc, idx, allSymbols,
          ords, parserLang, reads, formats, result, calls, prev, sig, level, page, find,
          lookup, front>>

----------------------------------------------------------------------------
(* Bounds of the model *)

MaxFiles == 2
MaxSigLen == 4
MaxCalls == 2
MaxBadQueries == 2
MaxSymbols == 3

----------------------------------------------------------------------------
(* strings *)

IsSpace(c) == c \in {" ", "\n", "\t"}

RECURSIVE TrimLeft(_)
TrimLeft(s) ==
    IF s # <<>> /\ IsSpace(Head(s)) THEN TrimLeft(Tail(s)) ELSE s

RECURSIVE TrimRight(_)
TrimRight(s) ==
    IF s # <<>> /\ IsSpace(s[Len(s)]) THEN TrimRight(SubSeq(s, 1, Len(s) - 1)) ELSE s

TrimSpace(s) == TrimRight(TrimLeft(s))

\* s[a:b] of Go, with 0-based offsets
Slice(s, a, b) == SubSeq(s, a + 1, b)

HasPrefix(s, p) == Len(p) <= Len(s) /\ SubSeq(s, 1, Len(p)) = p

HasSuffix(s, p) == Len(p) <= Len(s) /\ SubSeq(s, Len(s) - Len(p) + 1, Len(s)) = p

Contains(s, p) == \E k \in 0..(Len(s) - Len(p)) : SubSeq(s, k + 1, k + Len(p)) = p

UpperLetters == <<"A", "B", "C", "D", "E", "F", "G", "H", "I", "J", "K", "L", "M",
                  "N", "O", "P", "Q", "R", "S", "T", "U", "V", "W", "X", "Y", "Z">>
LowerLetters == <<"a", "b", "c", "d", "e", "f", "g", "h", "i", "j", "k", "l", "m",
                  "n", "o", "p", "q", "r", "s", "t", "u", "v", "w", "x", "y", "z">>

ToLowerChar(c) ==
    IF \E k \in 1..26 : UpperLetters[k] = c
    THEN LowerLetters[CHOOSE k \in 1..26 : UpperLetters[k] = c]
    ELSE c

ToLower(s) == [k \in 1..Len(s) |-> ToLowerChar(s[k])]

\* the offset of the last occurrence of character c in s, 0 when there is none
LastIndexOf(s, c) ==
    IF \E k \in 1..Len(s) : s[k] = c
    THEN CHOOSE k \in 1..Len(s) : s[k] = c /\ \A j \in (k + 1)..Len(s) : s[j] # c
    ELSE 0

FirstIndexOf(s, c) ==
    IF \E k \in 1..Len(s) : s[k] = c
    THEN CHOOSE k \in 1..Len(s) : s[k] = c /\ \A j \in 1..(k - 1) : s[j] # c
    ELSE 0

\* filepath.Base for a path that does not end in a separator
Base(path) == SubSeq(path, LastIndexOf(path, "/") + 1, Len(path))

\* filepath.Ext: the suffix beginning at the final dot of the final element
Ext(path) ==
    LET b == Base(path)
        d == LastIndexOf(b, ".")
    IN IF d = 0 THEN <<>> ELSE SubSeq(b, d, Len(b))

\* strings.Split(s, sep)[0] for a one-character separator
SplitFirst(s, c) ==
    IF FirstIndexOf(s, c) = 0 THEN s ELSE SubSeq(s, 1, FirstIndexOf(s, c) - 1)

Digit(d) ==
    CASE d = 0 -> "0" [] d = 1 -> "1" [] d = 2 -> "2" [] d = 3 -> "3" [] d = 4 -> "4"
      [] d = 5 -> "5" [] d = 6 -> "6" [] d = 7 -> "7" [] d = 8 -> "8" [] d = 9 -> "9"

\* fmt's %d of a non-negative integer
RECURSIVE Itoa(_)
Itoa(n) == IF n < 10 THEN <<Digit(n)>> ELSE Itoa(n \div 10) \o <<Digit(n % 10)>>

RECURSIVE Flatten(_)
Flatten(ss) == IF ss = <<>> THEN <<>> ELSE Head(ss) \o Flatten(Tail(ss))

\* all orders (sequences without repetition) of the elements of a finite set
Orders(S) == {o \in [1..Cardinality(S) -> S] : \A a, b \in DOMAIN o : a # b => o[a] # o[b]}

RangeOf(s) == {s[k] : k \in DOMAIN s}

----------------------------------------------------------------------------
(* types.go *)

Minimal == 0
Standard == 1
Full == 2

DetailLevels == {Minimal, Standard, Full}

WordMinimal == <<"m", "i", "n", "i", "m", "a", "l">>
WordStandard == <<"s", "t", "a", "n", "d", "a", "r", "d">>
WordFull == <<"f", "u", "l", "l">>

\* ParseDetailLevel comparing the string as given
ParseDetailLevelExact(d) ==
    CASE d = WordMinimal -> Minimal
      [] d = WordFull -> Full
      [] OTHER -> Standard

ParseDetailLevel(d) ==
    CASE ToLower(d) = WordMinimal -> Minimal
      [] ToLower(d) = WordFull -> Full
      [] OTHER -> Standard

----------------------------------------------------------------------------
(* the query tables: category -> the capture names of its pattern *)

goQueries ==
    [functions  |-> {"name", "params", "return_type", "function"},
     methods    |-> {"receiver", "name", "params", "return_type", "method"},
     types      |-> {"name", "type_def", "type"},
     constants  |-> {"name", "type", "value", "const"},
     variables  |-> {"name", "type", "value", "var"},
     interfaces |-> {"name", "interface_body", "interface"},
     structs    |-> {"name", "struct_body", "struct"}]

javaQueries ==
    [classes             |-> {"name", "class"},
     interfaces          |-> {"name", "interface"},
     methods             |-> {"name", "method"},
     constructors        |-> {"name", "constructor"},
     fields              |-> {"name", "field"},
     interface_constants |-> {"name", "field"},
     annotation_methods  |-> {"name", "method"},
     enums               |-> {"name", "enum"},
     records             |-> {"name", "record"},
     annotations         |-> {"name", "annotation"}]

javascriptQueries ==
    [functions            |-> {"name", "function"},
     generator_functions  |-> {"name", "function"},
     arrow_functions      |-> {"name", "arrow_func", "function"},
     function_expressions |-> {"name", "func_expr", "function"},
     classes              |-> {"name", "class"},
     methods              |-> {"name", "method"},
     variables            |-> {"name", "variable"}]

pythonQueries ==
    [functions           |-> {"name", "params", "return_type", "function"},
     classes             |-> {"name", "bases", "body", "class"},
     decorated_functions |-> {"decorators", "name", "params", "function", "decorated_function"},
     decorated_classes   |-> {"decorators", "name", "class", "decorated_class"},
     assignments         |-> {"name", "value", "assignment"}]

typescriptQueries ==
    [functions       |-> {"name", "function"},
     interfaces      |-> {"name", "interface"},
     type_aliases    |-> {"name", "type"},
     classes         |-> {"name", "class"},
     methods         |-> {"name", "method"},
     properties      |-> {"name", "property"},
     variables       |-> {"name", "variable"},
     arrow_functions |-> {"name", "function"},
     namespaces      |-> {"name", "namespace"}]

Languages == {"go", "java", "javascript", "python", "typescript"}

\* LanguageQueries.Queries of a language
QueriesOf(lang) ==
    CASE lang = "go" -> goQueries
      [] lang = "java" -> javaQueries
      [] lang = "javascript" -> javascriptQueries
      [] lang = "python" -> pythonQueries
      [] lang = "typescript" -> typescriptQueries

Categories(lang) == DOMAIN QueriesOf(lang)

AllCategories == UNION {Categories(l) : l \in Languages}

\* the language of a test-data name such as "java_basic_class.java.txt"
PrefixLanguage(filename) ==
    LET lang == SplitFirst(filename, "_")
    IN  CASE lang = <<"j", "a", "v", "a">> -> "java"
          [] lang = <<"g", "o">> -> "go"
          [] lang \in {<<"j", "s">>, <<"j", "a", "v", "a", "s", "c", "r", "i", "p", "t">>} -> "javascript"
          [] lang \in {<<"t", "s">>, <<"t", "y", "p", "e", "s", "c", "r", "i", "p", "t">>} -> "typescript"
          [] lang \in {<<"p", "y">>, <<"p", "y", "t", "h", "o", "n">>} -> "python"
          [] OTHER -> ""

InfixLanguage(filename) ==
    CASE Contains(filename, <<".", "j", "a", "v", "a", ".", "t", "x", "t">>) -> "java"
      [] Contains(filename, <<".", "g", "o", ".", "t", "x", "t">>) -> "go"
      [] Contains(filename, <<".", "j", "s", ".", "t", "x", "t">>)
           \/ Contains(filename, <<".", "j", "s", "x", ".", "t", "x", "t">>) -> "javascript"
      [] Contains(filename, <<".", "t", "s", ".", "t", "x", "t">>)
           \/ Contains(filename, <<".", "t", "s", "x", ".", "t", "x", "t">>) -> "typescript"
      [] Contains(filename, <<".", "p", "y", ".", "t", "x", "t">>) -> "python"
      [] OTHER -> ""

ExtLanguage(filePath) ==
    LET ext == ToLower(Ext(filePath))
    IN  CASE ext = <<".", "g", "o">> -> "go"
          [] ext = <<".", "j", "a", "v", "a">> -> "java"
          [] ext \in {<<".", "j", "s">>, <<".", "j", "s", "x">>} -> "javascript"
          [] ext = <<".", "p", "y">> -> "python"
          [] ext \in {<<".", "t", "s">>, <<".", "t", "s", "x">>} -> "typescript"
          [] OTHER -> ""

\* the language whose LanguageQueries the lookup returns, "" for nil
GetLanguageQueriesForFile(filePath) ==
    LET filename == Base(filePath)
        byPrefix == IF Contains(filename, <<"_">>) THEN PrefixLanguage(filename) ELSE ""
    IN  IF HasSuffix(filePath, <<".", "t", "x", "t">>) /\ byPrefix # "" THEN byPrefix
        ELSE IF HasSuffix(filePath, <<".", "t", "x", "t">>) /\ InfixLanguage(filename) # ""
             THEN InfixLanguage(filename)
        ELSE ExtLanguage(filePath)

\* GetLanguageForFile (the grammar lookup): the switch on the part of a
\* test-data name before its first underscore
GrammarOfPrefix(filename) ==
    LET lang == SplitFirst(filename, "_")
    IN  CASE lang = <<"j", "a", "v", "a">> -> "java"
          [] lang = <<"g", "o">> -> "go"
          [] lang \in {<<"j", "s">>, <<"j", "a", "v", "a", "s", "c", "r", "i", "p", "t">>} -> "javascript"
          [] lang \in {<<"t", "s">>, <<"t", "y", "p", "e", "s", "c", "r", "i", "p", "t">>} -> "typescript"
          [] lang \in {<<"p", "y">>, <<"p", "y", "t", "h", "o", "n">>} -> "python"
          [] OTHER -> ""

\* the tests on a name such as "something.java.txt", in their order
GrammarOfInfix(filename) ==
    IF Contains(filename, <<".", "j", "a", "v", "a", ".", "t", "x", "t">>) THEN "java"
    ELSE IF Contains(filename, <<".", "g", "o", ".", "t", "x", "t">>) THEN "go"
    ELSE IF Contains(filename, <<".", "j", "s", ".", "t", "x", "t">>) \/ Contains(filename, <<".", "j", "s", "x", ".", "t", "x", "t">>)
    THEN "javascript"
    ELSE IF Contains(filename, <<".", "t", "s", ".", "t", "x", "t">>) \/ Contains(filename, <<".", "t", "s", "x", ".", "t", "x", "t">>)
    THEN "typescript"
    ELSE IF Contains(filename, <<".", "p", "y", ".", "t", "x", "t">>) THEN "python"
    ELSE ""

\* the switch on the extension
GrammarOfExt(ext) ==
    CASE ext = <<".", "g", "o">> -> "go"
      [] ext \in {<<".", "j", "s">>, <<".", "j", "s", "x">>} -> "javascript"
      [] ext \in {<<".", "t", "s">>, <<".", "t", "s", "x">>} -> "typescript"
      [] ext = <<".", "p", "y">> -> "python"
      [] ext = <<".", "j", "a", "v", "a">> -> "java"
      [] OTHER -> ""

\* GetLanguageForFile switching on the extension as written
GetLanguageForFileExact(filePath) ==
    LET filename == Base(filePath)
        txt == HasSuffix(filePath, <<".", "t", "x", "t">>)
    IN  IF txt /\ Contains(filename, <<"_">>) /\ GrammarOfPrefix(filename) # ""
        THEN GrammarOfPrefix(filename)
        ELSE IF txt /\ GrammarOfInfix(filename) # "" THEN GrammarOfInfix(filename)
        ELSE GrammarOfExt(Ext(filePath))

\* GetLanguageForFile testing the infix before the prefix
GetLanguageForFileInfixFirst(filePath) ==
    LET filename == Base(filePath)
        txt == HasSuffix(filePath, <<".", "t", "x", "t">>)
    IN  IF txt /\ GrammarOfInfix(filename) # "" THEN GrammarOfInfix(filename)
        ELSE IF txt /\ Contains(filename, <<"_">>) /\ GrammarOfPrefix(filename) # ""
        THEN GrammarOfPrefix(filename)
        ELSE GrammarOfExt(ToLower(Ext(filePath)))

\* the language of the grammar the lookup returns, "" for the error
\* "unsupported file type"
GetLanguageForFile(filePath) ==
    LET filename == Base(filePath)
        txt == HasSuffix(filePath, <<".", "t", "x", "t">>)
    IN  IF txt /\ Contains(filename, <<"_">>) /\ GrammarOfPrefix(filename) # ""
        THEN GrammarOfPrefix(filename)
        ELSE IF txt /\ GrammarOfInfix(filename) # "" THEN GrammarOfInfix(filename)
        ELSE GrammarOfExt(ToLower(Ext(filePath)))

----------------------------------------------------------------------------
(* symbol extraction *)

KindVocabulary ==
    {"func", "method", "class", "interface", "struct", "type", "const", "var", "field",
     "constructor", "enum", "record", "annotation", "property"}

kindMap ==
    [functions |-> "func", generator_functions |-> "func", arrow_functions |-> "func",
     function_expressions |-> "func", methods |-> "method", classes |-> "class",
     interfaces |-> "interface", types |-> "type", constants |-> "const",
     variables |-> "var", structs |-> "struct", enums |-> "enum", records |-> "record",
     annotations |-> "annotation", constructors |-> "constructor", fields |-> "field",
     interface_constants |-> "field", annotation_methods |-> "method",
     async_functions |-> "func", decorated_functions |-> "func",
     decorated_classes |-> "class", assignments |-> "var", type_aliases |-> "type",
     properties |-> "property"]

mapSymbolKind(symbolType) ==
    IF symbolType \in DOMAIN kindMap THEN kindMap[symbolType] ELSE symbolType

\* the capture names that mark the declaration node
DeclRoots ==
    {"function", "method", "class", "interface", "type", "const", "var", "struct", "enum",
     "record", "annotation", "constructor", "field"}

bodyIndicators == {"{", ":", "="}

\* the scan of extractDeclarationSignature from offset i on
RECURSIVE ScanDeclaration(_, _, _, _)
ScanDeclaration(content, startByte, endByte, i) ==
    IF i < endByte /\ i < Len(content)
    THEN IF content[i + 1] \in bodyIndicators
            /\ TrimSpace(Slice(content, startByte, i)) # <<>>
         THEN TrimSpace(Slice(content, startByte, i))
         ELSE ScanDeclaration(content, startByte, endByte, i + 1)
    ELSE TrimSpace(Slice(content, startByte, endByte))

\* extractDeclarationSignature returning at the first body indicator even
\* when nothing but whitespace comes before it
RECURSIVE ScanDeclarationFirst(_, _, _, _)
ScanDeclarationFirst(content, startByte, endByte, i) ==
    IF i < endByte /\ i < Len(content)
    THEN IF content[i + 1] \in bodyIndicators
         THEN TrimSpace(Slice(content, startByte, i))
         ELSE ScanDeclarationFirst(content, startByte, endByte, i + 1)
    ELSE TrimSpace(Slice(content, startByte, endByte))

extractDeclarationSignatureFirst(node, content) ==
    ScanDeclarationFirst(content, node.sb, node.eb, node.sb)

extractDeclarationSignature(node, content) ==
    ScanDeclaration(content, node.sb, node.eb, node.sb)

\* extractSignature returning the declaration untrimmed at Full
extractSignatureUntrimmed(node, content, detailLevel) ==
    IF detailLevel = Full
    THEN Slice(content, node.sb, node.eb)
    ELSE extractDeclarationSignature(node, content)

\* extractSignature returning the declaration header at every level
extractSignatureHeader(node, content, detailLevel) ==
    extractDeclarationSignature(node, content)

extractSignature(node, content, detailLevel) ==
    IF detailLevel = Full
    THEN TrimSpace(Slice(content, node.sb, node.eb))
    ELSE extractDeclarationSignature(node, content)

\* a nil *sitter.Node
NoNode == [cname |-> "", sb |-> 0, eb |-> 0, sr |-> 0, er |-> 0]

\* the loop over match.Captures from capture k on; st = [symbol, mainNode, nameNode]
RECURSIVE ScanCaptures(_, _, _, _)
ScanCaptures(captures, k, content, st) ==
    IF k > Len(captures) THEN st
    ELSE LET node == captures[k]
         IN  ScanCaptures(captures, k + 1, content,
                 IF node.cname = "name"
                 THEN [st EXCEPT !.nameNode = node,
                                 !.symbol.Name = Slice(content, node.sb, node.eb)]
                 ELSE IF node.cname \in DeclRoots
                 THEN [st EXCEPT !.mainNode = node,
                                 !.symbol.StartLine = node.sr + 1,
                                 !.symbol.EndLine = node.er + 1]
                 ELSE st)

\* extractSymbolFromMatch extracting the signature at every detail level
extractSymbolFromMatchAlways(match, content, filePath, symbolType, detailLevel) ==
    LET st0 == [symbol |-> [Name |-> <<>>, Kind |-> mapSymbolKind(symbolType),
                            StartLine |-> 0, EndLine |-> 0, Signature |-> <<>>,
                            FilePath |-> filePath],
                mainNode |-> NoNode, nameNode |-> NoNode]
        st == ScanCaptures(match, 1, content, st0)
        s1 == IF st.mainNode # NoNode
              THEN [st.symbol EXCEPT !.Signature =
                        extractDeclarationSignature(st.mainNode, content)]
              ELSE st.symbol
    IN  IF st.mainNode = NoNode /\ st.nameNode # NoNode
        THEN [s1 EXCEPT !.StartLine = st.nameNode.sr + 1, !.EndLine = st.nameNode.er + 1]
        ELSE s1

\* extractSymbolFromMatch taking the name node for the declaration node when
\* the match has no declaration-root capture
extractSymbolFromMatchNameRoot(match, content, filePath, symbolType, detailLevel) ==
    LET st0 == [symbol |-> [Name |-> <<>>, Kind |-> mapSymbolKind(symbolType),
                            StartLine |-> 0, EndLine |-> 0, Signature |-> <<>>,
                            FilePath |-> filePath],
                mainNode |-> NoNode, nameNode |-> NoNode]
        st == ScanCaptures(match, 1, content, st0)
        main == IF st.mainNode # NoNode THEN st.mainNode ELSE st.nameNode
        s1 == IF main # NoNode /\ detailLevel >= Standard
              THEN [st.symbol EXCEPT !.Signature =
                        extractSignature(main, content, detailLevel)]
              ELSE st.symbol
    IN  IF st.mainNode = NoNode /\ st.nameNode # NoNode
        THEN [s1 EXCEPT !.StartLine = st.nameNode.sr + 1, !.EndLine = st.nameNode.er + 1]
        ELSE s1

\* extractSymbolFromMatch taking the lines of the name node at Minimal
extractSymbolFromMatchLevelSpan(match, content, filePath, symbolType, detailLevel) ==
    LET st0 == [symbol |-> [Name |-> <<>>, Kind |-> mapSymbolKind(symbolType),
                            StartLine |-> 0, EndLine |-> 0, Signature |-> <<>>,
                            FilePath |-> filePath],
                mainNode |-> NoNode, nameNode |-> NoNode]
        st == ScanCaptures(match, 1, content, st0)
        s1 == IF st.mainNode # NoNode /\ detailLevel >= Standard
              THEN [st.symbol EXCEPT !.Signature =
                        extractSignature(st.mainNode, content, detailLevel)]
              ELSE st.symbol
    IN  IF (st.mainNode = NoNode \/ detailLevel < Standard) /\ st.nameNode # NoNode
        THEN [s1 EXCEPT !.StartLine = st.nameNode.sr + 1, !.EndLine = st.nameNode.er + 1]
        ELSE s1

extractSymbolFromMatch(match, content, filePath, symbolType, detailLevel) ==
    LET st0 == [symbol |-> [Name |-> <<>>, Kind |-> mapSymbolKind(symbolType),
                            StartLine |-> 0, EndLine |-> 0, Signature |-> <<>>,
                            FilePath |-> filePath],
                mainNode |-> NoNode, nameNode |-> NoNode]
        st == ScanCaptures(match, 1, content, st0)
        s1 == IF st.mainNode # NoNode /\ detailLevel >= Standard
              THEN [st.symbol EXCEPT !.Signature =
                        extractSignature(st.mainNode, content, detailLevel)]
              ELSE st.symbol
    IN  IF st.mainNode = NoNode /\ st.nameNode # NoNode
        THEN [s1 EXCEPT !.StartLine = st.nameNode.sr + 1, !.EndLine = st.nameNode.er + 1]
        ELSE s1

\* the loop of executeQuery over the matches of the cursor
RECURSIVE CollectMatches(_, _, _, _, _)
CollectMatches(matches, content, filePath, symbolType, detailLevel) ==
    IF matches = <<>> THEN <<>>
    ELSE LET symbol == extractSymbolFromMatch(Head(matches), content, filePath,
                                              symbolType, detailLevel)
         IN  (IF symbol.Name # <<>> THEN <<symbol>> ELSE <<>>)
             \o CollectMatches(Tail(matches), content, filePath, symbolType, detailLevel)

\* the loop of executeQuery without the test of the name
RECURSIVE CollectMatchesUnnamed(_, _, _, _, _)
CollectMatchesUnnamed(matches, content, filePath, symbolType, detailLevel) ==
    IF matches = <<>> THEN <<>>
    ELSE <<extractSymbolFromMatch(Head(matches), content, filePath, symbolType,
                                  detailLevel)>>
         \o CollectMatchesUnnamed(Tail(matches), content, filePath, symbolType,
                                  detailLevel)

executeQueryUnnamed(matches, content, filePath, symbolType, detailLevel, compiles) ==
    IF ~compiles THEN [err |-> TRUE, symbols |-> <<>>]
    ELSE [err |-> FALSE,
          symbols |-> CollectMatchesUnnamed(matches, content, filePath, symbolType,
                                            detailLevel)]

\* executeQuery: [err, symbols]; compiles says whether sitter.NewQuery succeeds
executeQuery(matches, content, filePath, symbolType, detailLevel, compiles) ==
    IF ~compiles THEN [err |-> TRUE, symbols |-> <<>>]
    ELSE [err |-> FALSE,
          symbols |-> CollectMatches(matches, content, filePath, symbolType, detailLevel)]

RECURSIVE SetToSeq(_)
SetToSeq(S) ==
    IF S = {} THEN <<>> ELSE LET x == CHOOSE x \in S : TRUE IN <<x>> \o SetToSeq(S \ {x})

----------------------------------------------------------------------------
(* the files of the file system and what the parser and the query engine  *)
(* yield for them                                                          *)

PathGo == <<"/", "a", ".", "g", "o">>
PathJs == <<"/", "b", ".", "j", "s">>
PathTs == <<"/", "d", ".", "t", "s">>
PathMd == <<"/", "c", ".", "m", "d">>

Paths == {PathGo, PathJs, PathTs, PathMd}

Node(cname, sb, eb, sr, er) == [cname |-> cname, sb |-> sb, eb |-> eb, sr |-> sr, er |-> er]

\* func f(){          function_declaration [0,11), rows 0-1
\* }
\* const c int=1      const_spec [18,25), row 2
\* func (){}          function_declaration [26,35), row 3, its identifier MISSING
ContentGo ==
    <<"f", "u", "n", "c", " ", "f", "(", ")", "{", "\n", "}", "\n",
      "c", "o", "n", "s", "t", " ", "c", " ", "i", "n", "t", "=", "1", "\n",
      "f", "u", "n", "c", " ", "(", ")", "{", "}">>

\* let g=()=>1        variable_declarator [4,11), row 0
ContentJs == <<"l", "e", "t", " ", "g", "=", "(", ")", "=", ">", "1">>

\* namespace N{}      module_declaration [0,13), row 0
ContentTs == <<"n", "a", "m", "e", "s", "p", "a", "c", "e", " ", "N", "{", "}">>

ContentMd == <<"#", " ", "x">>

ContentOf(path) ==
    CASE path = PathGo -> ContentGo
      [] path = PathJs -> ContentJs
      [] path = PathTs -> ContentTs
      [] OTHER -> ContentMd

\* the matches of each category on the tree of a file, captures in the order
\* of the pattern's nodes (the enclosing node first)
TreeGo ==
    [functions |-> << <<Node("function", 0, 11, 0, 1), Node("name", 5, 6, 0, 0),
                        Node("params", 6, 8, 0, 0)>>,
                      <<Node("function", 26, 35, 3, 3), Node("name", 31, 31, 3, 3),
                        Node("params", 31, 33, 3, 3)>> >>,
     constants |-> << <<Node("const", 18, 25, 2, 2), Node("name", 18, 19, 2, 2),
                        Node("type", 20, 23, 2, 2), Node("value", 24, 25, 2, 2)>> >>]

TreeJs ==
    [arrow_functions |-> << <<Node("function", 4, 11, 0, 0), Node("name", 4, 5, 0, 0),
                              Node("arrow_func", 6, 11, 0, 0)>> >>,
     variables       |-> << <<Node("variable", 4, 11, 0, 0), Node("name", 4, 5, 0, 0)>> >>]

TreeTs ==
    [namespaces |-> << <<Node("namespace", 0, 13, 0, 0), Node("name", 10, 11, 0, 0)>> >>]

TreeOf(path) ==
    CASE path = PathGo -> TreeGo
      [] path = PathJs -> TreeJs
      [] path = PathTs -> TreeTs
      [] OTHER -> <<>>

\* the matches cursor.NextMatch yields for a category on the tree of a file
MatchesOf(path, symbolType) ==
    IF symbolType \in DOMAIN TreeOf(path) THEN TreeOf(path)[symbolType] ELSE <<>>

\* The orders in which a range over langQueries.Queries can yield the
\* categories.  A category without a match on the tree appends nothing
\* wherever it comes, so the orders are enumerated up to the place of those.
MapOrders(lang, path) ==
    LET active == {c \in Categories(lang) : MatchesOf(path, c) # <<>>}
    IN  {o \o SetToSeq(Categories(lang) \ active) : o \in Orders(active)}

----------------------------------------------------------------------------
(* SymbolExtractor *)

\* the loop of extractSymbolsFromTree over the categories in the order ord
RECURSIVE RangeQueries(_, _, _, _, _, _)
RangeQueries(ord, content, filePath, lang, detailLevel, bad) ==
    IF ord = <<>> THEN <<>>
    ELSE LET q == executeQuery(MatchesOf(filePath, Head(ord)), content, filePath,
                               Head(ord), detailLevel, <<lang, Head(ord)>> \notin bad)
         IN  (IF q.err THEN <<>> ELSE q.symbols)
             \o RangeQueries(Tail(ord), content, filePath, lang, detailLevel, bad)

\* the loop leaving at the first category that fails (break for continue)
RECURSIVE RangeQueriesBreak(_, _, _, _, _, _)
RangeQueriesBreak(ord, content, filePath, lang, detailLevel, bad) ==
    IF ord = <<>> THEN <<>>
    ELSE LET q == executeQuery(MatchesOf(filePath, Head(ord)), content, filePath,
                               Head(ord), detailLevel, <<lang, Head(ord)>> \notin bad)
         IN  IF q.err THEN <<>>
             ELSE q.symbols
                  \o RangeQueriesBreak(Tail(ord), content, filePath, lang, detailLevel, bad)

extractSymbolsFromTreeBreak(ord, content, filePath, lang, detailLevel, bad) ==
    [err |-> FALSE,
     symbols |-> RangeQueriesBreak(ord, content, filePath, lang, detailLevel, bad)]

\* symbols with the later ones of the same name and first line removed
RECURSIVE Dedup(_)
Dedup(symbols) ==
    IF symbols = <<>> THEN <<>>
    ELSE LET init == SubSeq(symbols, 1, Len(symbols) - 1)
             last == symbols[Len(symbols)]
         IN  Dedup(init)
             \o (IF \E k \in DOMAIN init : /\ init[k].Name = last.Name
                                           /\ init[k].StartLine = last.StartLine
                 THEN <<>> ELSE <<last>>)

extractSymbolsFromTreeDedup(ord, content, filePath, lang, detailLevel, bad) ==
    [err |-> FALSE,
     symbols |-> Dedup(RangeQueries(ord, content, filePath, lang, detailLevel, bad))]

\* the loop returning after the first category that gives symbols
RECURSIVE RangeQueriesFirst(_, _, _, _, _, _)
RangeQueriesFirst(ord, content, filePath, lang, detailLevel, bad) ==
    IF ord = <<>> THEN <<>>
    ELSE LET q == executeQuery(MatchesOf(filePath, Head(ord)), content, filePath,
                               Head(ord), detailLevel, <<lang, Head(ord)>> \notin bad)
         IN  IF ~q.err /\ q.symbols # <<>> THEN q.symbols
             ELSE RangeQueriesFirst(Tail(ord), content, filePath, lang, detailLevel, bad)

extractSymbolsFromTreeFirst(ord, content, filePath, lang, detailLevel, bad) ==
    [err |-> FALSE,
     symbols |-> RangeQueriesFirst(ord, content, filePath, lang, detailLevel, bad)]

extractSymbolsFromTree(ord, content, filePath, lang, detailLevel, bad) ==
    [err |-> FALSE,
     symbols |-> RangeQueries(ord, content, filePath, lang, detailLevel, bad)]

\* ExtractFromFile calling SetLanguage only on a parser that has no grammar
ExtractFromFileKeep(filePath, detailLevel, ord, readFails, parseFails, bad, keep) ==
    IF readFails
    THEN [err |-> TRUE, symbols |-> <<>>, lang |-> keep]
    ELSE IF GetLanguageQueriesForFile(filePath) = ""
    THEN [err |-> TRUE, symbols |-> <<>>, lang |-> keep]
    ELSE IF parseFails
    THEN [err |-> TRUE, symbols |-> <<>>,
          lang |-> IF keep = "" THEN GetLanguageQueriesForFile(filePath) ELSE keep]
    ELSE LET r == extractSymbolsFromTree(ord, ContentOf(filePath), filePath,
                      GetLanguageQueriesForFile(filePath), detailLevel, bad)
         IN  [err |-> r.err, symbols |-> r.symbols,
              lang |-> IF keep = "" THEN GetLanguageQueriesForFile(filePath) ELSE keep]

\* ExtractFromFile: [err, symbols, read, lang]; lang is the grammar set on
\* the parser when the call returns (keep when SetLanguage was not reached)
ExtractFromFile(filePath, detailLevel, ord, readFails, parseFails, bad, keep) ==
    IF readFails
    THEN [err |-> TRUE, symbols |-> <<>>, lang |-> keep]
    ELSE IF GetLanguageQueriesForFile(filePath) = ""
    THEN [err |-> TRUE, symbols |-> <<>>, lang |-> keep]
    ELSE IF parseFails
    THEN [err |-> TRUE, symbols |-> <<>>, lang |-> GetLanguageQueriesForFile(filePath)]
    ELSE LET r == extractSymbolsFromTree(ord, ContentOf(filePath), filePath,
                      GetLanguageQueriesForFile(filePath), detailLevel, bad)
         IN  [err |-> r.err, symbols |-> r.symbols,
              lang |-> GetLanguageQueriesForFile(filePath)]

----------------------------------------------------------------------------
(* formatter.go *)

RECURSIVE Repeat(_, _)
Repeat(s, n) == IF n = 0 THEN <<>> ELSE <<s>> \o Repeat(s, n - 1)

\* the token of a code fence, three backquotes (a character the strings of
\* TLA+ cannot hold)
Fence == "[fence]"

\* formatSymbol without the special case of var and const at Standard
formatSymbolPlain(symbol, detailLevel, indent) ==
    LET indentStr == Repeat("  ", indent)
    IN  CASE detailLevel = Minimal ->
               indentStr \o <<"- ", symbol.Kind, ": ">> \o symbol.Name \o <<" (line ">>
                   \o Itoa(symbol.StartLine) \o <<")\n">>
          [] detailLevel = Standard ->
               IF symbol.Signature # <<>>
               THEN indentStr \o <<"- ", symbol.Kind, ": ">> \o symbol.Signature
                        \o <<"\n">>
               ELSE indentStr \o <<"- ", symbol.Kind, ": ">> \o symbol.Name
                        \o <<" (lines ">> \o Itoa(symbol.StartLine) \o <<"-">>
                        \o Itoa(symbol.EndLine) \o <<")\n">>
          [] detailLevel = Full ->
               indentStr \o <<"- ", symbol.Kind, " (lines ">> \o Itoa(symbol.StartLine)
                   \o <<"-">> \o Itoa(symbol.EndLine) \o <<"):\n">>
                   \o (IF symbol.Signature # <<>>
                       THEN indentStr \o <<"  ", Fence, "\n">> \o indentStr \o <<"  ">>
                                \o symbol.Signature \o <<"\n">> \o indentStr
                                \o <<"  ", Fence, "\n">>
                       ELSE <<>>)
          [] OTHER -> <<>>

\* formatSymbol writing the code block at Full whatever the signature
formatSymbolFenced(symbol, detailLevel, indent) ==
    LET indentStr == Repeat("  ", indent)
    IN  CASE detailLevel = Minimal ->
               indentStr \o <<"- ", symbol.Kind, ": ">> \o symbol.Name \o <<" (line ">>
                   \o Itoa(symbol.StartLine) \o <<")\n">>
          [] detailLevel = Standard ->
               IF symbol.Signature # <<>>
               THEN IF symbol.Kind = "var" \/ symbol.Kind = "const"
                    THEN IF symbol.Signature = symbol.Name
                         THEN indentStr \o <<"- ", symbol.Kind, ": ">> \o symbol.Name
                                  \o <<"\n">>
                         ELSE indentStr \o <<"- ", symbol.Kind, ": ">> \o symbol.Name
                                  \o <<" ">> \o symbol.Signature \o <<"\n">>
                    ELSE indentStr \o <<"- ", symbol.Kind, ": ">> \o symbol.Signature
                             \o <<"\n">>
               ELSE indentStr \o <<"- ", symbol.Kind, ": ">> \o symbol.Name
                        \o <<" (lines ">> \o Itoa(symbol.StartLine) \o <<"-">>
                        \o Itoa(symbol.EndLine) \o <<")\n">>
          [] detailLevel = Full ->
               indentStr \o <<"- ", symbol.Kind, " (lines ">> \o Itoa(symbol.StartLine)
                   \o <<"-">> \o Itoa(symbol.EndLine) \o <<"):\n">>
                   \o indentStr \o <<"  ", Fence, "\n">> \o indentStr \o <<"  ">>
                   \o symbol.Signature \o <<"\n">> \o indentStr \o <<"  ", Fence, "\n">>
          [] OTHER -> <<>>

formatSymbol(symbol, detailLevel, indent) ==
    LET indentStr == Repeat("  ", indent)
    IN  CASE detailLevel = Minimal ->
               indentStr \o <<"- ", symbol.Kind, ": ">> \o symbol.Name \o <<" (line ">>
                   \o Itoa(symbol.StartLine) \o <<")\n">>
          [] detailLevel = Standard ->
               IF symbol.Signature # <<>>
               THEN IF symbol.Kind = "var" \/ symbol.Kind = "const"
                    THEN IF symbol.Signature = symbol.Name
                         THEN indentStr \o <<"- ", symbol.Kind, ": ">> \o symbol.Name
                                  \o <<"\n">>
                         ELSE indentStr \o <<"- ", symbol.Kind, ": ">> \o symbol.Name
                                  \o <<" ">> \o symbol.Signature \o <<"\n">>
                    ELSE indentStr \o <<"- ", symbol.Kind, ": ">> \o symbol.Signature
                             \o <<"\n">>
               ELSE indentStr \o <<"- ", symbol.Kind, ": ">> \o symbol.Name
                        \o <<" (lines ">> \o Itoa(symbol.StartLine) \o <<"-">>
                        \o Itoa(symbol.EndLine) \o <<")\n">>
          [] detailLevel = Full ->
               indentStr \o <<"- ", symbol.Kind, " (lines ">> \o Itoa(symbol.StartLine)
                   \o <<"-">> \o Itoa(symbol.EndLine) \o <<"):\n">>
                   \o (IF symbol.Signature # <<>>
                       THEN indentStr \o <<"  ", Fence, "\n">> \o indentStr \o <<"  ">>
                                \o symbol.Signature \o <<"\n">> \o indentStr
                                \o <<"  ", Fence, "\n">>
                       ELSE <<>>)
          [] OTHER -> <<>>

\* fileSymbols[file] with each symbol put in front of the earlier ones
RECURSIVE SymbolsOfFilePrepend(_, _)
SymbolsOfFilePrepend(symbols, file) ==
    IF symbols = <<>> THEN <<>>
    ELSE SymbolsOfFilePrepend(Tail(symbols), file)
         \o (IF Head(symbols).FilePath = file THEN <<Head(symbols)>> ELSE <<>>)

\* fileSymbols[file]: the symbols of a file, in the order of the list
RECURSIVE SymbolsOfFile(_, _)
SymbolsOfFile(symbols, file) ==
    IF symbols = <<>> THEN <<>>
    ELSE (IF Head(symbols).FilePath = file THEN <<Head(symbols)>> ELSE <<>>)
         \o SymbolsOfFile(Tail(symbols), file)

RECURSIVE FormatAll(_, _)
FormatAll(syms, detailLevel) ==
    IF syms = <<>> THEN <<>>
    ELSE formatSymbol(Head(syms), detailLevel, 0) \o FormatAll(Tail(syms), detailLevel)

\* the sections of the files in the order fileOrder
RECURSIVE FormatSections(_, _, _)
FormatSections(fileOrder, symbols, detailLevel) ==
    IF fileOrder = <<>> THEN <<>>
    ELSE <<"## ">> \o Head(fileOrder) \o <<"\n\n">>
         \o FormatAll(SymbolsOfFile(symbols, Head(fileOrder)), detailLevel)
         \o <<"\n">>
         \o FormatSections(Tail(fileOrder), symbols, detailLevel)

\* the keys of the map fileSymbols
FilesOf(symbols) == {symbols[k].FilePath : k \in DOMAIN symbols}

\* FormatSymbols, with the range over the map fileSymbols yielding the files
\* in the order fileOrder
FormatSymbols(symbols, detailLevel, fileOrder) ==
    IF Len(symbols) = 0 THEN <<"No symbols found">>
    ELSE <<"# Symbol Outline\n\n">> \o FormatSections(fileOrder, symbols, detailLevel)

----------------------------------------------------------------------------
(* what file discovery can return for a pattern *)

PatAll == <<"/", "*">>
PatMd == <<"/", "*", ".", "m", "d">>
PatBad == <<"/", "[">>

\* the paths of the file system in the lexical order in which filepath.Glob
\* and filepath.Walk list them
FsOrder == <<PathGo, PathJs, PathMd, PathTs>>

RECURSIVE Select(_, _)
Select(list, S) ==
    IF list = <<>> THEN <<>>
    ELSE (IF Head(list) \in S THEN <<Head(list)>> ELSE <<>>) \o Select(Tail(list), S)

\* the files present in the directory, at most MaxFiles of them
FileLists == {Select(FsOrder, S) : S \in {T \in SUBSET Paths : Cardinality(T) <= MaxFiles}}

Discoveries ==
    {[pattern |-> PatBad, err |-> TRUE, files |-> <<>>]}
    \cup {[pattern |-> PatAll, err |-> FALSE, files |-> fl] : fl \in FileLists}
    \cup {[pattern |-> PatMd, err |-> FALSE, files |-> fl] :
              fl \in {g \in FileLists : RangeOf(g) \subseteq {PathMd}}}

\* the <<language, category>> pairs whose failure to compile can show: those
\* with a match on the tree of some file, and one without
BadQueryCandidates ==
    UNION {{<<GetLanguageQueriesForFile(p), c>> : c \in DOMAIN TreeOf(p)} : p \in Paths}
    \cup {<<"go", "methods">>}

NoResult == [err |-> FALSE, text |-> <<>>]
NoSig == [content |-> <<>>, sb |-> 0, eb |-> 0, std |-> <<>>, full |-> <<>>, done |-> FALSE]

----------------------------------------------------------------------------
(* FindFiles: the pattern language of path/filepath and a file system *)

\* strings.Split
RECURSIVE Split(_, _)
Split(s, sep) ==
    IF ~Contains(s, sep) THEN <<s>>
    ELSE LET k == CHOOSE i \in 0..(Len(s) - Len(sep)) :
                      /\ SubSeq(s, i + 1, i + Len(sep)) = sep
                      /\ \A j \in 0..(i - 1) : SubSeq(s, j + 1, j + Len(sep)) # sep
         IN  <<SubSeq(s, 1, k)>> \o Split(SubSeq(s, k + Len(sep) + 1, Len(s)), sep)

TrimSuffix(s, suffix) ==
    IF HasSuffix(s, suffix) THEN SubSeq(s, 1, Len(s) - Len(suffix)) ELSE s

TrimPrefix(s, prefix) ==
    IF HasPrefix(s, prefix) THEN SubSeq(s, Len(prefix) + 1, Len(s)) ELSE s

\* filepath.ErrBadPattern: a character class that is empty or not closed.
\* Of the pattern language the terms '*', '?', '[' characters ']' and the
\* literal characters are modelled; ranges, negation and escapes are not.
RECURSIVE ErrBadPattern(_)
ErrBadPattern(pat) ==
    IF pat = <<>> THEN FALSE
    ELSE IF Head(pat) = "["
    THEN LET close == FirstIndexOf(Tail(pat), "]")
         IN  close <= 1 \/ ErrBadPattern(SubSeq(Tail(pat), close + 1, Len(pat) - 1))
    ELSE ErrBadPattern(Tail(pat))

\* a well-formed pattern matches the whole name; '*', '?' and a class match
\* no separator
RECURSIVE Matches(_, _)
Matches(pat, name) ==
    IF pat = <<>> THEN name = <<>>
    ELSE IF Head(pat) = "*"
    THEN \/ Matches(Tail(pat), name)
         \/ name # <<>> /\ Head(name) # "/" /\ Matches(pat, Tail(name))
    ELSE IF name = <<>> THEN FALSE
    ELSE IF Head(pat) = "?"
    THEN Head(name) # "/" /\ Matches(Tail(pat), Tail(name))
    ELSE IF Head(pat) = "["
    THEN LET close == FirstIndexOf(Tail(pat), "]")
         IN  /\ Head(name) # "/"
             /\ \E k \in 1..(close - 1) : Tail(pat)[k] = Head(name)
             /\ Matches(SubSeq(Tail(pat), close + 1, Len(pat) - 1), Tail(name))
    ELSE Head(pat) = Head(name) /\ Matches(Tail(pat), Tail(name))

\* filepath.Match: (matched, err); a malformed pattern is an error whatever
\* the name
Match(pat, name) ==
    IF ErrBadPattern(pat) THEN [matched |-> FALSE, err |-> TRUE]
    ELSE [matched |-> Matches(pat, name), err |-> FALSE]

\* the file system: the directories /, /p and /p/q, and in them the files
\* that exist of /a.go, /p/a.go, /p/b.md, /p/q/a.go and /p/q/c.go
Root == <<"/">>
DirP == <<"/", "p">>
DirQ == <<"/", "p", "/", "q">>
FileP == <<"/", "p", "/", "a", ".", "g", "o">>
FileMd == <<"/", "p", "/", "b", ".", "m", "d">>
FileQ == <<"/", "p", "/", "q", "/", "a", ".", "g", "o">>
FileQc == <<"/", "p", "/", "q", "/", "c", ".", "g", "o">>

FsDirs == {Root, DirP, DirQ}
FsFiles == {PathGo, FileP, FileMd, FileQ, FileQc}

\* every path in the lexical order of filepath.Walk and filepath.Glob
FsWalkOrder == <<Root, PathGo, DirP, FileP, FileMd, DirQ, FileQ, FileQc>>

\* the working directory of the process
Cwd == Root

IsDir(path) == path \in FsDirs

\* path is the directory dir or lies beneath it
Under(path, dir) ==
    path = dir \/ HasPrefix(path, IF HasSuffix(dir, <<"/">>) THEN dir ELSE dir \o <<"/">>)

\* the paths os.Lstat finds: the directories, the files that exist, less
\* what lies beneath a directory that cannot be read
Entries(files, denied) ==
    {e \in FsDirs \cup files : \A d \in denied : e = d \/ ~Under(e, d)}

\* filepath.Walk: the paths the callback is called on, in order.  A root
\* that os.Lstat does not find, the empty path included, gives one call with
\* an error and no other; the entries beneath the root "." are named
\* relative to the working directory.
Walk(root, files, denied) ==
    LET top == IF root = <<".">> THEN Cwd ELSE root
        seen == Select(FsWalkOrder, {e \in Entries(files, denied) : Under(e, top)})
    IN  IF top \notin Entries(files, denied) THEN <<>>
        ELSE [k \in DOMAIN seen |->
                 [path |-> IF root = <<".">>
                           THEN (IF seen[k] = Cwd THEN <<".">> ELSE TrimPrefix(seen[k], Cwd))
                           ELSE seen[k],
                  isDir |-> IsDir(seen[k])]]

\* filepath.Glob: the paths that exist and match the pattern element by
\* element, directories included; ErrBadPattern for a malformed pattern
Glob(pat, files, denied) ==
    IF ErrBadPattern(pat) THEN [err |-> TRUE, files |-> <<>>]
    ELSE [err |-> FALSE,
          files |-> Select(FsWalkOrder, {e \in Entries(files, denied) : Matches(pat, e)})]

\* the callback of the walk on the visited entries from number k on
RECURSIVE WalkFiles(_, _, _)
WalkFiles(visited, k, filePattern) ==
    IF k > Len(visited) THEN <<>>
    ELSE (IF ~visited[k].isDir /\ Match(filePattern, Base(visited[k].path)).matched
          THEN <<visited[k].path>> ELSE <<>>)
         \o WalkFiles(visited, k + 1, filePattern)

\* FindFiles taking the first and the last part whatever their number
FindFilesAnyParts(pat, files, denied) ==
    IF Contains(pat, <<"*", "*">>)
    THEN LET parts == Split(pat, <<"*", "*">>)
             baseDir == IF parts[1] = <<>> THEN <<".">>
                        ELSE TrimSuffix(parts[1], <<"/">>)
             filePattern == TrimPrefix(parts[Len(parts)], <<"/">>)
         IN  [err |-> FALSE, walks |-> 1,
              files |-> WalkFiles(Walk(baseDir, files, denied), 1, filePattern)]
    ELSE LET g == Glob(pat, files, denied)
         IN  [err |-> g.err, walks |-> 0, files |-> g.files]

\* FindFiles: (files, err), and the number of calls of filepath.Walk
FindFiles(pat, files, denied) ==
    IF Contains(pat, <<"*", "*">>)
    THEN LET parts == Split(pat, <<"*", "*">>)
             baseDir == IF parts[1] = <<>> THEN <<".">>
                        ELSE TrimSuffix(parts[1], <<"/">>)
             filePattern == TrimPrefix(parts[2], <<"/">>)
         IN  IF Len(parts) # 2 THEN [err |-> TRUE, walks |-> 0, files |-> <<>>]
             ELSE [err |-> FALSE, walks |-> 1,
                   files |-> WalkFiles(Walk(baseDir, files, denied), 1, filePattern)]
    ELSE LET g == Glob(pat, files, denied)
         IN  [err |-> g.err, walks |-> 0, files |-> g.files]

\* the patterns: plain globs, one recursive segment under /p, /p/q, the
\* root, the working directory and a directory that does not exist, two
\* recursive segments, malformed patterns with and without a recursive
\* segment
FindPatterns ==
    {<<"/", "*", ".", "g", "o">>,
     <<"/", "p", "/", "*", ".", "g", "o">>,
     <<"/", "p", "/", "*">>,
     <<"/", "p", "/", "a", ".", "g", "o">>,
     <<"/", "p", "/", "[", "a", "b", "]", ".", "g", "o">>,
     <<"/", "p", "/", "[">>,
     <<"/", "p", "/", "*", "*", "/", "*", ".", "g", "o">>,
     <<"/", "p", "/", "*", "*", "/", "*">>,
     <<"/", "p", "/", "q", "/", "*", "*", "/", "?", ".", "g", "o">>,
     <<"/", "x", "/", "*", "*", "/", "*", ".", "g", "o">>,
     <<"/", "*", "*", "/", "*", ".", "g", "o">>,
     <<"*", "*", "/", "*", ".", "g", "o">>,
     <<"/", "p", "/", "*", "*", "/", "[">>,
     <<"/", "p", "/", "*", "*", "/", "q", "/", "*", "*", "/", "*", ".", "g", "o">>,
     <<"/", "*", "*", "/", "*", "*">>}

\* the workbenches of the function-level specifications, idle
NoLevel == [detail |-> <<>>, out |-> Standard, done |-> FALSE]
NoPage == [symbols |-> <<>>, detail |-> Standard, order |-> <<>>, text |-> <<>>,
           done |-> FALSE]
NoFind == [pattern |-> <<>>, files |-> {}, denied |-> {}, walks |-> 0, err |-> FALSE,
           out |-> <<>>, done |-> FALSE]

NoLookup == [path |-> <<>>, grammar |-> "", queries |-> "", done |-> FALSE]
NoFront == [end |-> "", given |-> FALSE, pattern |-> <<>>, files |-> {}, at |-> "",
            error |-> FALSE, extracted |-> 0]

Supported(path) == GetLanguageQueriesForFile(path) # ""

Init ==
    /\ \E d \in Discoveries :
           /\ pattern = d.pattern
           /\ found = [err |-> d.err, files |-> d.files]
    /\ detail \in DetailLevels
    /\ faulty \in SUBSET RangeOf(found.files)
    /\ unparsable \in SUBSET {p \in RangeOf(found.files) \ faulty : Supported(p)}
    /\ badQuery \in {B \in SUBSET BadQueryCandidates : Cardinality(B) <= MaxBadQueries}
    /\ pc = "start"
    /\ idx = 0
    /\ allSymbols = <<>>
    /\ ords = <<>>
    /\ parserLang = ""
    /\ reads = 0
    /\ formats = 0
    /\ result = NoResult
    /\ calls = 0
    /\ prev = NoResult
    /\ sig = NoSig
    /\ level = NoLevel
    /\ page = NoPage
    /\ find = NoFind
    /\ lookup = NoLookup
    /\ front = NoFront

world == <<pattern, detail, found, faulty, unparsable, badQuery, sig, level, page, find,
           lookup, front>>

\* ExtractSymbolsStart with the error of FindFiles dropped
ExtractSymbolsStartSwallow(files, pat) ==
    IF files.err \/ Len(files.files) = 0
    THEN [done |-> TRUE,
          result |-> [err |-> FALSE,
                      text |-> <<"No files found matching pattern: ">> \o pat]]
    ELSE [done |-> FALSE, result |-> NoResult]

\* ExtractSymbolsStart without the test for an empty file list
ExtractSymbolsStartNoEmptyTest(files, pat) ==
    IF files.err
    THEN [done |-> TRUE, result |-> [err |-> TRUE, text |-> <<>>]]
    ELSE [done |-> FALSE, result |-> NoResult]

\* ExtractSymbols up to the loop: [done, result], done when the call returns
\* before the loop
ExtractSymbolsStart(files, pat) ==
    IF files.err
    THEN [done |-> TRUE, result |-> [err |-> TRUE, text |-> <<>>]]
    ELSE IF Len(files.files) = 0
    THEN [done |-> TRUE,
          result |-> [err |-> FALSE,
                      text |-> <<"No files found matching pattern: ">> \o pat]]
    ELSE [done |-> FALSE, result |-> NoResult]

\* AppendFile assigning the symbols of the file instead of appending them
AppendFileAssign(symbols, r) ==
    IF r.err THEN symbols ELSE r.symbols

\* the body of the loop of ExtractSymbols, r the result of ExtractFromFile
AppendFile(symbols, r) ==
    IF r.err THEN symbols ELSE symbols \o r.symbols

\* ExtractSymbolsEnd writing the report of an empty symbol list
ExtractSymbolsEndNoEmptyTest(symbols, detailLevel, fileOrder) ==
    [result |-> [err |-> FALSE,
                 text |-> <<"# Symbol Outline\n\n">>
                              \o FormatSections(fileOrder, symbols, detailLevel)],
     formatted |-> TRUE]

\* ExtractSymbols after the loop: [result, formatted]
ExtractSymbolsEnd(symbols, detailLevel, fileOrder) ==
    IF Len(symbols) = 0
    THEN [result |-> [err |-> FALSE, text |-> <<"No symbols found">>],
          formatted |-> FALSE]
    ELSE [result |-> [err |-> FALSE,
                      text |-> FormatSymbols(symbols, detailLevel, fileOrder)],
          formatted |-> TRUE]

\* the call of FindFiles, the two early returns, the new extractor
Discover ==
    /\ pc = "start"
    /\ LET s == ExtractSymbolsStart(found, pattern)
       IN  IF s.done
           THEN /\ result' = s.result
                /\ pc' = "done"
                /\ calls' = calls + 1
                /\ UNCHANGED idx
           ELSE /\ pc' = "loop"
                /\ idx' = 1
                /\ UNCHANGED <<result, calls>>
    /\ parserLang' = ""
    /\ UNCHANGED <<world, allSymbols, ords, reads, formats, prev>>

\* whether ExtractFromFile reaches the queries for a file
Reached(file) == file \notin faulty /\ Supported(file) /\ file \notin unparsable

\* one iteration of the loop of ExtractSymbols: ExtractFromFile on the next file
ExtractFile ==
    /\ pc = "loop"
    /\ idx <= Len(found.files)
    /\ LET file == found.files[idx]
       IN  \E ord \in (IF Reached(file)
                       THEN MapOrders(GetLanguageQueriesForFile(file), file)
                       ELSE {<<>>}) :
               LET r == ExtractFromFile(file, detail, ord, file \in faulty,
                                        file \in unparsable, badQuery, parserLang)
               IN  /\ allSymbols' = AppendFile(allSymbols, r)
                   /\ ords' = Append(ords, ord)
                   /\ parserLang' = r.lang
    /\ reads' = reads + 1
    /\ idx' = idx + 1
    /\ UNCHANGED <<world, pc, formats, result, calls, prev>>

\* the end of ExtractSymbols: the report, or the message of an empty list
Finish ==
    /\ pc = "loop"
    /\ idx > Len(found.files)
    /\ \E fileOrder \in Orders(FilesOf(allSymbols)) :
           LET e == ExtractSymbolsEnd(allSymbols, detail, fileOrder)
           IN  /\ result' = e.result
               /\ formats' = IF e.formatted THEN formats + 1 ELSE formats
    /\ pc' = "done"
    /\ calls' = calls + 1
    /\ UNCHANGED <<world, idx, allSymbols, ords, parserLang, reads, prev>>

Next == Discover \/ ExtractFile \/ Finish

Spec == Init /\ [][Next]_vars

----------------------------------------------------------------------------
(* the caller calls ExtractSymbols again with the same pattern and detail, *)
(* the files unchanged                                                     *)

Again ==
    /\ pc = "done"
    /\ calls < MaxCalls
    /\ prev' = result
    /\ pc' = "start"
    /\ idx' = 0
    /\ allSymbols' = <<>>
    /\ ords' = <<>>
    /\ parserLang' = ""
    /\ reads' = 0
    /\ formats' = 0
    /\ result' = NoResult
    /\ UNCHANGED <<world, calls>>

NextRepeat == Discover \/ ExtractFile \/ Finish \/ Again

SpecRepeat == Init /\ [][NextRepeat]_vars

----------------------------------------------------------------------------
(* extractSignature on every declaration range of every short text *)

SigAlphabet == {"a", " ", "{", ":", "="}

SigContents == UNION {[1..n -> SigAlphabet] : n \in 0..MaxSigLen}

InitSig ==
    /\ \E c \in SigContents : \E a \in 0..Len(c) : \E b \in a..Len(c) :
           sig = [content |-> c, sb |-> a, eb |-> b, std |-> <<>>, full |-> <<>>,
                  done |-> FALSE]
    /\ pattern = <<>>
    /\ detail = Standard
    /\ found = [err |-> FALSE, files |-> <<>>]
    /\ faulty = {}
    /\ unparsable = {}
    /\ badQuery = {}
    /\ pc = "signature"
    /\ idx = 0
    /\ allSymbols = <<>>
    /\ ords = <<>>
    /\ parserLang = ""
    /\ reads = 0
    /\ formats = 0
    /\ result = NoResult
    /\ calls = 0
    /\ prev = NoResult
    /\ level = NoLevel
    /\ page = NoPage
    /\ find = NoFind
    /\ lookup = NoLookup
    /\ front = NoFront

\* the signature of the declaration node at Standard and at Full
Signatures ==
    /\ pc = "signature"
    /\ ~sig.done
    /\ LET node == Node("function", sig.sb, sig.eb, 0, 0)
       IN  sig' = [sig EXCEPT !.std = extractSignature(node, sig.content, Standard),
                              !.full = extractSignature(node, sig.content, Full),
                              !.done = TRUE]
    /\ UNCHANGED <<pattern, detail, found, faulty, unparsable, badQuery, pc, idx,
                   allSymbols, ords, parserLang, reads, formats, result, calls, prev,
                   level, page, find, lookup, front>>

NextSig == Signatures

SpecSig == InitSig /\ [][NextSig]_vars

(* the function-level specifications leave the pipeline idle at position p *)
IdlePipeline(p) ==
    /\ pattern = <<>>
    /\ detail = Standard
    /\ found = [err |-> FALSE, files |-> <<>>]
    /\ faulty = {}
    /\ unparsable = {}
    /\ badQuery = {}
    /\ pc = p
    /\ idx = 0
    /\ allSymbols = <<>>
    /\ ords = <<>>
    /\ parserLang = ""
    /\ reads = 0
    /\ formats = 0
    /\ result = NoResult
    /\ calls = 0
    /\ prev = NoResult

pipeline == <<pattern, detail, found, faulty, unparsable, badQuery, pc, idx, allSymbols,
              ords, parserLang, reads, formats, result, calls, prev>>

(* ParseDetailLevel on the three words in every letter case and on strings *)
(* that are none of them                                                   *)

ToUpperChar(c) ==
    IF \E k \in 1..26 : LowerLetters[k] = c
    THEN UpperLetters[CHOOSE k \in 1..26 : LowerLetters[k] = c]
    ELSE c

CaseVariants(w) ==
    {[k \in 1..Len(w) |-> IF up[k] THEN ToUpperChar(w[k]) ELSE w[k]] :
         up \in [1..Len(w) -> BOOLEAN]}

OtherDetails ==
    {<<>>, <<"x">>, <<"m", "i", "n">>, <<"f", "u", "l", "l", "l">>,
     <<"F", "U", "L">>, <<" ", "f", "u", "l", "l">>,
     <<"m", "i", "n", "i", "m", "a", "l", " ">>, <<"M", "A", "X">>,
     <<"s", "t", "d">>, <<"0">>}

DetailStrings ==
    CaseVariants(WordMinimal) \cup CaseVariants(WordFull)
    \cup CaseVariants(WordStandard) \cup OtherDetails

InitDetail ==
    /\ \E d \in DetailStrings : level = [detail |-> d, out |-> Standard, done |-> FALSE]
    /\ IdlePipeline("detail")
    /\ sig = NoSig
    /\ page = NoPage
    /\ find = NoFind
    /\ lookup = NoLookup
    /\ front = NoFront

ParseDetail ==
    /\ pc = "detail"
    /\ ~level.done
    /\ level' = [level EXCEPT !.out = ParseDetailLevel(level.detail), !.done = TRUE]
    /\ UNCHANGED <<pipeline, sig, page, find, lookup, front>>

NextDetail == ParseDetail

SpecDetail == InitDetail /\ [][NextDetail]_vars

(* FormatSymbols on every short list of symbols: each kind of rendering     *)
(* (no signature, a signature that is the name, another signature; var and *)
(* const against the other kinds) in two files                             *)

SymbolUniverse ==
    [Name : {<<"x">>}, Kind : {"func", "var", "const"}, StartLine : {1}, EndLine : {2},
     Signature : {<<>>, <<"x">>, <<"T">>}, FilePath : {PathGo, PathJs}]

SymbolLists == UNION {[1..n -> SymbolUniverse] : n \in 0..MaxSymbols}

InitFormat ==
    /\ \E l \in SymbolLists : \E d \in DetailLevels :
           page = [symbols |-> l, detail |-> d, order |-> <<>>, text |-> <<>>,
                   done |-> FALSE]
    /\ IdlePipeline("format")
    /\ sig = NoSig
    /\ level = NoLevel
    /\ find = NoFind
    /\ lookup = NoLookup
    /\ front = NoFront

\* one call of FormatSymbols; order is the order in which the range over the
\* map fileSymbols yields the files
FormatPage ==
    /\ pc = "format"
    /\ ~page.done
    /\ \E order \in Orders(FilesOf(page.symbols)) :
           page' = [page EXCEPT !.order = order,
                                !.text = FormatSymbols(page.symbols, page.detail, order),
                                !.done = TRUE]
    /\ UNCHANGED <<pipeline, sig, level, find, lookup, front>>

NextFormat == FormatPage

SpecFormat == InitFormat /\ [][NextFormat]_vars

(* FindFiles on each pattern and each file system *)

InitFind ==
    /\ \E p \in FindPatterns : \E fs \in SUBSET FsFiles : \E dn \in SUBSET {DirQ} :
           find = [pattern |-> p, files |-> fs, denied |-> dn, walks |-> 0,
                   err |-> FALSE, out |-> <<>>, done |-> FALSE]
    /\ IdlePipeline("find")
    /\ sig = NoSig
    /\ level = NoLevel
    /\ page = NoPage
    /\ lookup = NoLookup
    /\ front = NoFront

Find ==
    /\ pc = "find"
    /\ ~find.done
    /\ LET r == FindFiles(find.pattern, find.files, find.denied)
       IN  find' = [find EXCEPT !.err = r.err, !.out = r.files, !.walks = r.walks,
                                !.done = TRUE]
    /\ UNCHANGED <<pipeline, sig, level, page, lookup, front>>

NextFind == Find

SpecFind == InitFind /\ [][NextFind]_vars

(* the two language lookups on paths made of a directory, a stem and an *)
(* ending                                                               *)

LookupDirs == {<<"/">>, <<"/", "d", ".", "g", "o", "/">>, <<"/", "a", "_", "b", "/">>}

LookupStems ==
    {<<>>, <<"a">>, <<"a", ".", "t", "s">>, <<"g", "o", "_", "a">>, <<"j", "a", "v", "a", "_", "a">>, <<"j", "s", "_", "a">>, <<"j", "a", "v", "a", "s", "c", "r", "i", "p", "t", "_", "a">>, <<"t", "s", "_", "a">>,
     <<"t", "y", "p", "e", "s", "c", "r", "i", "p", "t", "_", "a">>, <<"p", "y", "_", "a">>, <<"p", "y", "t", "h", "o", "n", "_", "a">>, <<"c", "_", "a">>}

LookupEndings ==
    {<<>>, <<".", "g", "o">>, <<".", "G", "o">>, <<".", "G", "O">>, <<".", "j", "a", "v", "a">>, <<".", "J", "A", "V", "A">>, <<".", "j", "s">>, <<".", "j", "s", "x">>, <<".", "J", "S", "X">>, <<".", "t", "s">>,
     <<".", "t", "s", "x">>, <<".", "t", "S">>, <<".", "p", "y">>, <<".", "P", "y">>, <<".", "t", "x", "t">>, <<".", "T", "X", "T">>, <<".", "m", "d">>, <<".", "g", "o", "o">>, <<".", "g">>,
     <<".", "g", "o", ".", "t", "x", "t">>, <<".", "j", "a", "v", "a", ".", "t", "x", "t">>, <<".", "j", "s", ".", "t", "x", "t">>, <<".", "j", "s", "x", ".", "t", "x", "t">>, <<".", "t", "s", ".", "t", "x", "t">>, <<".", "t", "s", "x", ".", "t", "x", "t">>,
     <<".", "p", "y", ".", "t", "x", "t">>, <<".", "m", "d", ".", "t", "x", "t">>, <<".", "G", "O", ".", "t", "x", "t">>, <<".", "g", "o", ".", "T", "X", "T">>}

LookupNames == {s \o e : s \in LookupStems, e \in LookupEndings} \ {<<>>}

LookupPaths == {d \o n : d \in LookupDirs, n \in LookupNames}

InitLookup ==
    /\ \E p \in LookupPaths :
           lookup = [path |-> p, grammar |-> "", queries |-> "", done |-> FALSE]
    /\ IdlePipeline("lookup")
    /\ sig = NoSig
    /\ level = NoLevel
    /\ page = NoPage
    /\ find = NoFind
    /\ front = NoFront

\* the grammar lookup and the query-table lookup on the same path
Lookup ==
    /\ pc = "lookup"
    /\ ~lookup.done
    /\ lookup' = [lookup EXCEPT !.grammar = GetLanguageForFile(lookup.path),
                                !.queries = GetLanguageQueriesForFile(lookup.path),
                                !.done = TRUE]
    /\ UNCHANGED <<pipeline, sig, level, page, find, front>>

NextLookup == Lookup

SpecLookup == InitLookup /\ [][NextLookup]_vars

(* the front ends: runCLI and extractSymbolsHandler on one request *)

\* filepath.IsAbs on Unix
IsAbs(path) == HasPrefix(path, <<"/">>)

\* validateAbsolutePath accepting every pattern
validateAbsolutePathNone(pat) == FALSE

\* validateAbsolutePath: whether it returns an error
validateAbsolutePath(pat) == ~IsAbs(pat)

RelativePatterns ==
    {<<>>, <<"*", ".", "g", "o">>, <<"p", "/", "*", ".", "g", "o">>, <<".", "/", "p", "/", "*", "*", "/", "*", ".", "g", "o">>, <<".", ".", "/", "a", ".", "g", "o">>, <<"~", "/", "p", "/", "*", ".", "g", "o">>, <<"p", "/">>, <<"a", ".", "g", "o">>}

FrontPatterns == FindPatterns \cup RelativePatterns

InitFront ==
    /\ \E e \in {"cli", "mcp"} : \E g \in BOOLEAN : \E fs \in SUBSET FsFiles :
       \E p \in (IF g THEN FrontPatterns ELSE {<<>>}) :
           front = [end |-> e, given |-> g, pattern |-> p, files |-> fs,
                    at |-> "arguments", error |-> FALSE, extracted |-> 0]
    /\ IdlePipeline("front")
    /\ sig = NoSig
    /\ level = NoLevel
    /\ page = NoPage
    /\ find = NoFind
    /\ lookup = NoLookup

\* the pattern argument is read: without one the CLI prints its usage and
\* exits with status 1 and the handler returns an error result
Arguments ==
    /\ pc = "front"
    /\ front.at = "arguments"
    /\ front' = IF front.given THEN [front EXCEPT !.at = "validate"]
                ELSE [front EXCEPT !.at = "returned", !.error = TRUE]
    /\ UNCHANGED <<pipeline, sig, level, page, find, lookup>>

\* validateAbsolutePath and the return on its error
Validate ==
    /\ pc = "front"
    /\ front.at = "validate"
    /\ front' = IF validateAbsolutePath(front.pattern)
                THEN [front EXCEPT !.at = "returned", !.error = TRUE]
                ELSE [front EXCEPT !.at = "extract"]
    /\ UNCHANGED <<pipeline, sig, level, page, find, lookup>>

\* the call of extractSymbols, which begins with FindFiles and fails when
\* FindFiles does
Extract ==
    /\ pc = "front"
    /\ front.at = "extract"
    /\ front' = [front EXCEPT !.at = "returned",
                              !.error = FindFiles(front.pattern, front.files, {}).err,
                              !.extracted = front.extracted + 1]
    /\ UNCHANGED <<pipeline, sig, level, page, find, lookup>>

NextFront == Arguments \/ Validate \/ Extract

SpecFront == InitFront /\ [][NextFront]_vars

----------------------------------------------------------------------------
(* Properties *)

LangOf(file) == GetLanguageQueriesForFile(file)

\* the text of the name capture of a match is not empty
HasName(match) ==
    \E k \in DOMAIN match :
        /\ match[k].cname = "name"
        /\ \A j \in (k + 1)..Len(match) : match[j].cname # "name"
        /\ match[k].sb < match[k].eb

\* the <<category, match>> pairs of a file whose pattern compiles and whose
\* match has a name
NamedMatches(file) ==
    UNION {{<<c, m>> : m \in {n \in DOMAIN MatchesOf(file, c) : HasName(MatchesOf(file, c)[n])}}
           : c \in {d \in Categories(LangOf(file)) : <<LangOf(file), d>> \notin badQuery}}

\* a file from which at least one symbol comes
Contributes(file) == Reached(file) /\ NamedMatches(file) # {}

\* the files the loop has been through
Processed == 1..Len(ords)

\* ord without the categories of lang that do not compile
RECURSIVE Compiling(_, _)
Compiling(ord, lang) ==
    IF ord = <<>> THEN <<>>
    ELSE (IF <<lang, Head(ord)>> \in badQuery THEN <<>> ELSE <<Head(ord)>>)
         \o Compiling(Tail(ord), lang)

\* the symbols of file number k, by the order its categories were ranged in
FileResult(k) ==
    LET file == found.files[k]
    IN  IF Reached(file)
        THEN RangeQueries(ords[k], ContentOf(file), file, LangOf(file), detail, badQuery)
        ELSE <<>>

\* the symbols of file number k with the categories that do not compile
\* taken out of the query table
FileResultWithout(k) ==
    LET file == found.files[k]
    IN  IF Reached(file)
        THEN RangeQueries(Compiling(ords[k], LangOf(file)), ContentOf(file), file,
                          LangOf(file), detail, {})
        ELSE <<>>

InCall == pc \in {"loop", "done"} /\ ~found.err

\* C1: extract returns an error exactly when file discovery does; read
\* failures, unsupported types, parse failures and categories that do not
\* compile leave the result a success.
C1_ErrorIffDiscoveryFails == pc = "done" => (result.err <=> found.err)

C1_Witness ==
    /\ pc = "done"
    /\ ~result.err
    /\ faulty \cup unparsable # {}
    /\ \E k \in DOMAIN found.files :
           /\ Reached(found.files[k])
           /\ \E c \in DOMAIN TreeOf(found.files[k]) :
                  <<LangOf(found.files[k]), c>> \in badQuery

\* C2: a category whose pattern does not compile adds no symbol, and all
\* other symbols are those extracted with that category absent from the
\* query table.
C2_CategoryLocalFailure ==
    InCall => allSymbols = Flatten([k \in Processed |-> FileResultWithout(k)])

C2_Witness ==
    /\ pc = "done"
    /\ \E k \in DOMAIN found.files :
           /\ Contributes(found.files[k])
           /\ \E c \in DOMAIN TreeOf(found.files[k]) :
                  <<LangOf(found.files[k]), c>> \in badQuery

\* C3: the symbol list is the concatenation, in the order of the file list,
\* of the results of the files that are read, supported and parsed; a
\* skipped file adds nothing and changes no other file's symbols.
C3_ConcatenationOfFileResults ==
    InCall =>
        /\ Len(ords) = (IF pc = "done" THEN Len(found.files) ELSE idx - 1)
        /\ allSymbols = Flatten([k \in Processed |-> FileResult(k)])

C3_Witness ==
    /\ pc = "done"
    /\ formats = 1
    /\ Len(found.files) = 2
    /\ ~Reached(found.files[1])
    /\ Contributes(found.files[2])

\* C4: every extracted symbol has a non-empty name.
C4_NamesNotEmpty == \A k \in DOMAIN allSymbols : allSymbols[k].Name # <<>>

C4_Witness ==
    /\ pc = "done"
    /\ formats = 1
    /\ \E k \in DOMAIN found.files :
           /\ Reached(found.files[k])
           /\ \E c \in DOMAIN TreeOf(found.files[k]) :
                  /\ <<LangOf(found.files[k]), c>> \notin badQuery
                  /\ \E m \in DOMAIN MatchesOf(found.files[k], c) :
                         ~HasName(MatchesOf(found.files[k], c)[m])

\* the symbols of a list that carry a file path
CountOfFile(symbols, file) == Len(SymbolsOfFile(symbols, file))

\* C5: the number of symbols of a file is the number of <<category, match>>
\* pairs with a compiling pattern and a named match; nothing is removed when
\* two categories match the same construct.
C5_NoDeduplication ==
    InCall =>
        \A k \in Processed :
            CountOfFile(allSymbols, found.files[k]) =
                (IF Reached(found.files[k])
                 THEN Cardinality(NamedMatches(found.files[k])) ELSE 0)

C5_Witness ==
    /\ pc = "done"
    /\ \E i, j \in DOMAIN allSymbols :
           /\ i # j
           /\ allSymbols[i].FilePath = PathJs
           /\ allSymbols[j].FilePath = PathJs
           /\ allSymbols[i].Name = allSymbols[j].Name
           /\ allSymbols[i].Kind = "func"
           /\ allSymbols[j].Kind = "var"

\* C6: the kind of every symbol is one of the closed vocabulary and never
\* the raw category name.
C6_KindsInVocabulary ==
    \A k \in DOMAIN allSymbols :
        /\ allSymbols[k].Kind \in KindVocabulary
        /\ allSymbols[k].Kind \notin AllCategories

\* C7: two calls of extract with the same pattern and detail on the same
\* files return the same report.
C7_SameReportTwice == (pc = "done" /\ calls >= 2) => result = prev

\* C8: the signature at Standard is a prefix of, or equal to, the signature
\* at Full for the same declaration node.
C8_StandardPrefixOfFull == sig.done => HasPrefix(sig.full, sig.std)

C8_Witness ==
    /\ sig.done
    /\ sig.std # <<>>
    /\ sig.std # sig.full
    /\ sig.sb > 0
    /\ IsSpace(sig.content[sig.sb + 1])

\* C9: with an empty file list extract returns the message "No files found
\* matching pattern: " and the pattern, as a success, with no file read and
\* the formatter not called.
C9_NoFilesMessage ==
    (pc = "done" /\ ~found.err /\ found.files = <<>>) =>
        /\ result = [err |-> FALSE,
                     text |-> <<"No files found matching pattern: ">> \o pattern]
        /\ reads = 0
        /\ formats = 0
        /\ ords = <<>>

C9_Witness == pc = "done" /\ ~found.err /\ found.files = <<>> /\ pattern = PatMd

\* C10: with a file list that is not empty and no file that yields a symbol,
\* extract returns "No symbols found" as a success.
C10_NoSymbolsMessage ==
    (/\ pc = "done"
     /\ ~found.err
     /\ found.files # <<>>
     /\ \A k \in DOMAIN found.files : ~Contributes(found.files[k])) =>
        result = [err |-> FALSE, text |-> <<"No symbols found">>]

C10_Witness ==
    /\ pc = "done"
    /\ found.files = <<PathMd>>
    /\ reads = 1
    /\ result.text = <<"No symbols found">>

\* the string d is the word w in some letter case
EqualFold(d, w) ==
    /\ Len(d) = Len(w)
    /\ \A k \in 1..Len(w) : d[k] \in {w[k], ToUpperChar(w[k])}

\* C11: ParseDetailLevel returns Minimal for "minimal" in any letter case,
\* Full for "full" in any letter case, and Standard for every other string
\* ("standard" in any case, the empty string, an unrecognized value); it
\* always returns a level.
C11_ParseDetailLevelFolds ==
    level.done =>
        /\ level.out \in DetailLevels
        /\ level.out = Minimal <=> EqualFold(level.detail, WordMinimal)
        /\ level.out = Full <=> EqualFold(level.detail, WordFull)

C11_Witness ==
    /\ level.done
    /\ EqualFold(level.detail, WordFull)
    /\ level.detail # WordFull
    /\ level.out = Full

\* C12: at Full the signature of a declaration node is the source bytes from
\* its start byte to its end byte, body included, with only the leading and
\* the trailing whitespace removed: a slice [a, b) of the node's range that
\* neither starts nor ends with whitespace, everything of the range outside
\* it being whitespace.
C12_FullIsTrimmedRange ==
    sig.done =>
        \E a \in sig.sb..sig.eb : \E b \in a..sig.eb :
            /\ sig.full = Slice(sig.content, a, b)
            /\ \A k \in (sig.sb + 1)..a : IsSpace(sig.content[k])
            /\ \A k \in (b + 1)..sig.eb : IsSpace(sig.content[k])
            /\ a < b => ~IsSpace(sig.content[a + 1]) /\ ~IsSpace(sig.content[b])

C12_Witness ==
    /\ sig.done
    /\ sig.eb - sig.sb = MaxSigLen
    /\ IsSpace(sig.content[sig.sb + 1])
    /\ IsSpace(sig.content[sig.eb])
    /\ sig.full = <<"a", "{">>
    /\ sig.std = <<"a">>

\* the report of the symbols: the header, then for each file of order, in that
\* order, its heading, the lines Line gives for its symbols in the order of
\* the list, and an empty line
ReportOf(order, symbols, Line(_)) ==
    <<"# Symbol Outline\n\n">>
    \o Flatten([k \in 1..Len(order) |->
           LET own == SelectSeq(symbols, LAMBDA s : s.FilePath = order[k])
           IN  <<"## ">> \o order[k] \o <<"\n\n">>
               \o Flatten([j \in 1..Len(own) |-> Line(own[j])]) \o <<"\n">>])

\* - <kind>: <name> (line <startLine>)
MinimalLine(s) ==
    <<"- ", s.Kind, ": ">> \o s.Name \o <<" (line ">> \o Itoa(s.StartLine) \o <<")\n">>

\* a symbol of the list comes from a match of the file with, or without, a
\* declaration-root capture
FromDeclaration(root) ==
    \E k \in DOMAIN allSymbols : \E c \in DOMAIN TreeOf(allSymbols[k].FilePath) :
        \E n \in DOMAIN TreeOf(allSymbols[k].FilePath)[c] :
            LET m == TreeOf(allSymbols[k].FilePath)[c][n]
            IN  /\ allSymbols[k].Kind = mapSymbolKind(c)
                /\ HasName(m)
                /\ root <=> \E i \in DOMAIN m : m[i].cname \in DeclRoots

\* C13: at Minimal every extracted symbol has an empty signature, whether or
\* not its match has a declaration-root capture, and the report renders it as
\* the line "- <kind>: <name> (line <startLine>)".
C13_MinimalHasNoSignature ==
    (InCall /\ detail = Minimal) =>
        /\ \A k \in DOMAIN allSymbols : allSymbols[k].Signature = <<>>
        /\ (pc = "done" /\ formats = 1) =>
               \E order \in Orders(FilesOf(allSymbols)) :
                   result.text = ReportOf(order, allSymbols, MinimalLine)

C13_Witness ==
    /\ pc = "done"
    /\ detail = Minimal
    /\ formats = 1
    /\ FromDeclaration(TRUE)
    /\ FromDeclaration(FALSE)

\* a call of FormatSymbols on a list that is not empty has returned
Formatted(d) == page.done /\ page.detail = d /\ page.symbols # <<>>

\* the line of a symbol at Standard
StandardLine(s) ==
    IF s.Signature = <<>>
    THEN <<"- ", s.Kind, ": ">> \o s.Name \o <<" (lines ">> \o Itoa(s.StartLine)
             \o <<"-">> \o Itoa(s.EndLine) \o <<")\n">>
    ELSE IF s.Kind \notin {"var", "const"}
    THEN <<"- ", s.Kind, ": ">> \o s.Signature \o <<"\n">>
    ELSE IF s.Signature # s.Name
    THEN <<"- ", s.Kind, ": ">> \o s.Name \o <<" ">> \o s.Signature \o <<"\n">>
    ELSE <<"- ", s.Kind, ": ">> \o s.Name \o <<"\n">>

\* C14: at Standard a symbol is rendered "- <kind>: <name> (lines
\* <startLine>-<endLine>)" when its signature is empty, "- <kind>:
\* <signature>" when it has a signature and is neither a var nor a const,
\* and for a var or a const "- <kind>: <name> <signature>" when the signature
\* differs from the name and "- <kind>: <name>" when it is the name.
C14_StandardLines ==
    Formatted(Standard) => page.text = ReportOf(page.order, page.symbols, StandardLine)

C14_Witness ==
    /\ Formatted(Standard)
    /\ \E k \in DOMAIN page.symbols :
           /\ page.symbols[k].Kind = "const"
           /\ page.symbols[k].Signature = page.symbols[k].Name
    /\ \E k \in DOMAIN page.symbols :
           /\ page.symbols[k].Kind = "var"
           /\ page.symbols[k].Signature \notin {<<>>, page.symbols[k].Name}
    /\ \E k \in DOMAIN page.symbols :
           /\ page.symbols[k].Kind = "func"
           /\ page.symbols[k].Signature # <<>>

\* - <kind> (lines <startLine>-<endLine>):
FullHead(s) ==
    <<"- ", s.Kind, " (lines ">> \o Itoa(s.StartLine) \o <<"-">> \o Itoa(s.EndLine)
        \o <<"):\n">>

\* the signature in a code block, indented under the line
FencedBlock(s) == <<"  ", Fence, "\n", "  ">> \o s.Signature \o <<"\n", "  ", Fence, "\n">>

FencedLine(s) == FullHead(s) \o FencedBlock(s)

FullLine(s) == FullHead(s) \o (IF s.Signature # <<>> THEN FencedBlock(s) ELSE <<>>)

\* C15 as stated: at Full every symbol is rendered as the line "- <kind>
\* (lines <startLine>-<endLine>):" followed by a fenced code block containing
\* its signature.
C15_FullAlwaysFenced ==
    Formatted(Full) => page.text = ReportOf(page.order, page.symbols, FencedLine)

\* C15 amended: at Full every symbol is rendered as the line "- <kind> (lines
\* <startLine>-<endLine>):", followed by a fenced code block containing its
\* signature when the signature is not empty and by nothing when it is empty.
C15_FullFencedWhenSigned ==
    Formatted(Full) => page.text = ReportOf(page.order, page.symbols, FullLine)

C15_Witness ==
    /\ Formatted(Full)
    /\ \E k \in DOMAIN page.symbols : page.symbols[k].Signature = <<>>
    /\ \E k \in DOMAIN page.symbols : page.symbols[k].Signature # <<>>

\* the file paths of the list, each once, in the order of their first
\* occurrence
RECURSIVE FirstSeen(_, _)
FirstSeen(symbols, seen) ==
    IF symbols = <<>> THEN <<>>
    ELSE IF Head(symbols).FilePath \in seen THEN FirstSeen(Tail(symbols), seen)
    ELSE <<Head(symbols).FilePath>>
         \o FirstSeen(Tail(symbols), seen \cup {Head(symbols).FilePath})

\* the line formatSymbol writes for a top-level symbol at the detail of the call
LineOfCall(s) == formatSymbol(s, page.detail, 0)

\* C16: the file sections of the report are in the order in which each file
\* path first occurs in the input list, for every list with symbols of two
\* or more files.
C16_SectionsInFirstSeenOrder ==
    (page.done /\ Cardinality(FilesOf(page.symbols)) >= 2) =>
        page.text = ReportOf(FirstSeen(page.symbols, {}), page.symbols, LineOfCall)

\* C17: each distinct file path of the input has exactly one section, and
\* the section lists exactly the input symbols of that path, each once and
\* none of another file, in their relative order in the input.
C17_OneSectionPerFile ==
    (page.done /\ page.symbols # <<>>) =>
        \E order \in Orders(FilesOf(page.symbols)) :
            page.text = ReportOf(order, page.symbols, LineOfCall)

C17_Witness ==
    /\ page.done
    /\ Len(page.symbols) = 3
    /\ page.symbols[1].FilePath = page.symbols[3].FilePath
    /\ page.symbols[1].FilePath # page.symbols[2].FilePath
    /\ page.symbols[1] # page.symbols[3]
    /\ page.order = <<page.symbols[2].FilePath, page.symbols[1].FilePath>>

\* the number of recursive segments of a pattern: the occurrences of "**",
\* counted without overlap from the left (a "**" starts where an even number
\* of stars comes directly before it)
StarsBefore(pat, k) ==
    Cardinality({j \in 1..(k - 1) : \A i \in j..(k - 1) : pat[i] = "*"})

RecursiveSegments(pat) ==
    Cardinality({k \in 1..(Len(pat) - 1) :
                    /\ pat[k] = "*"
                    /\ pat[k + 1] = "*"
                    /\ StarsBefore(pat, k) % 2 = 0})

\* C18: for every pattern with malformed glob syntax, with or without a
\* recursive segment, FindFiles returns an error and extract aborts with an
\* error instead of a report or a message.
C18_MalformedPatternFails ==
    (find.done /\ ErrBadPattern(find.pattern)) =>
        /\ find.err
        /\ LET start == ExtractSymbolsStart([err |-> find.err, files |-> find.out],
                                            find.pattern)
           IN  start.done /\ start.result.err

\* C19: a pattern with more than one recursive segment is rejected with an
\* error before any directory is walked, and a pattern with exactly one is
\* never rejected.
C19_OneRecursiveSegment ==
    find.done =>
        /\ RecursiveSegments(find.pattern) > 1 =>
               find.err /\ find.walks = 0 /\ find.out = <<>>
        /\ RecursiveSegments(find.pattern) = 1 => ~find.err

C19_Witness ==
    /\ find.done
    /\ RecursiveSegments(find.pattern) = 2
    /\ find.files = FsFiles
    /\ find.err
    /\ find.walks = 0

\* the number of separators of a path
Depth(path) == Cardinality({k \in DOMAIN path : path[k] = "/"})

NoDuplicates(list) == \A i, j \in DOMAIN list : list[i] = list[j] => i = j

\* C20: on a file system that can be read, FindFiles on <base>/**/<glob>
\* returns exactly the files (not the directories) at any depth beneath
\* <base> whose base name matches <glob>, each once; on a well-formed pattern
\* without "**" it returns what the plain glob matches, all at the depth of
\* the pattern; a pattern that matches nothing gives the empty list; and
\* none of these is an error.
C20_FindFilesResults ==
    (find.done /\ find.denied = {}) =>
        /\ \A k \in 0..(Len(find.pattern) - 4) :
               LET base == SubSeq(find.pattern, 1, k)
                   glob == SubSeq(find.pattern, k + 5, Len(find.pattern))
               IN  (/\ SubSeq(find.pattern, k + 1, k + 4) = <<"/", "*", "*", "/">>
                    /\ RecursiveSegments(find.pattern) = 1
                    /\ Depth(glob) = 0)
                   => /\ ~find.err
                      /\ NoDuplicates(find.out)
                      /\ RangeOf(find.out) =
                             {e \in find.files :
                                 /\ HasPrefix(e, base \o <<"/">>)
                                 /\ Match(glob, Base(e)).matched}
        /\ (RecursiveSegments(find.pattern) = 0 /\ ~ErrBadPattern(find.pattern))
           => /\ ~find.err
              /\ NoDuplicates(find.out)
              /\ RangeOf(find.out) =
                     {e \in FsDirs \cup find.files : Matches(find.pattern, e)}
              /\ \A i \in DOMAIN find.out : Depth(find.out[i]) = Depth(find.pattern)

\* the final extension of a path: its suffix from the last dot of its last
\* element on, empty when that element has no dot
FinalExtension(path) ==
    IF \E k \in DOMAIN path : path[k] = "." /\ \A j \in k..Len(path) : path[j] # "/"
    THEN LET k == CHOOSE i \in DOMAIN path :
                      /\ path[i] = "."
                      /\ \A j \in (i + 1)..Len(path) : path[j] \notin {".", "/"}
         IN  SubSeq(path, k, Len(path))
    ELSE <<>>

\* the language of each supported extension
LanguageOfExtension ==
    {<<<<".", "g", "o">>, "go">>, <<<<".", "j", "a", "v", "a">>, "java">>, <<<<".", "j", "s">>, "javascript">>,
     <<<<".", "j", "s", "x">>, "javascript">>, <<<<".", "t", "s">>, "typescript">>, <<<<".", "t", "s", "x">>, "typescript">>,
     <<<<".", "p", "y">>, "python">>}

\* C21: for a path that does not end in ".txt" the grammar lookup answers by
\* the lower-cased final extension alone: the language of .go, .java,
\* .js/.jsx, .ts/.tsx, .py in any letter case, and "unsupported" for every
\* other extension, on which ExtractFromFile returns an error and the loop
\* of ExtractSymbols goes on with the symbols it had.
C21_ExtensionDecides ==
    (lookup.done /\ ~HasSuffix(lookup.path, <<".", "t", "x", "t">>)) =>
        LET ext == ToLower(FinalExtension(lookup.path))
            r == ExtractFromFile(lookup.path, Standard, <<>>, FALSE, FALSE, {}, "")
        IN  /\ \A l \in Languages :
                   lookup.grammar = l <=> <<ext, l>> \in LanguageOfExtension
            /\ lookup.grammar \in Languages \cup {""}
            /\ lookup.grammar = "" => r.err /\ AppendFile(<<>>, r) = <<>>

C21_Witness ==
    /\ lookup.done
    /\ ~HasSuffix(lookup.path, <<".", "t", "x", "t">>)
    /\ Contains(lookup.path, <<"_">>)
    /\ FinalExtension(lookup.path) = <<".", "J", "S", "X">>
    /\ lookup.grammar = "javascript"

\* C30: the grammar lookup and the query-table lookup agree on every path:
\* one returns a grammar exactly when the other returns a table, and for
\* the same language, ".txt" paths included, where the language named
\* before the first underscore goes before a ".<ext>.txt" infix.
C30_LookupsAgree ==
    lookup.done =>
        /\ lookup.grammar = lookup.queries
        /\ (/\ HasSuffix(lookup.path, <<".", "t", "x", "t">>)
            /\ Contains(Base(lookup.path), <<"_">>)
            /\ GrammarOfPrefix(Base(lookup.path)) # "")
           => lookup.grammar = GrammarOfPrefix(Base(lookup.path))

C30_Witness ==
    /\ lookup.done
    /\ Base(lookup.path) = <<"g", "o", "_", "a", ".", "j", "a", "v", "a", ".", "t", "x", "t">>
    /\ lookup.grammar = "go"
    /\ lookup.queries = "go"

\* C22: the CLI command and the MCP tool handler answer a pattern that is
\* not an absolute path with an error, and never start file discovery or
\* extraction for it.
C22_RelativePatternRejected ==
    (front.given /\ ~HasPrefix(front.pattern, <<"/">>)) =>
        /\ front.at # "extract"
        /\ front.extracted = 0
        /\ front.at = "returned" => front.error

C22_Witness ==
    /\ front.end = "mcp"
    /\ front.pattern = <<"p", "/", "*", ".", "g", "o">>
    /\ front.files # {}
    /\ front.at = "returned"
    /\ front.error

\* the captures of a match whose name is in the declaration-root set
RootCaptures(match) == {i \in DOMAIN match : match[i].cname \in DeclRoots}

\* the symbol of a match whose declaration node is capture number i
SymbolByCapture(file, c, match, i) ==
    [Name |-> LET n == CHOOSE j \in DOMAIN match :
                           /\ match[j].cname = "name"
                           /\ \A h \in (j + 1)..Len(match) : match[h].cname # "name"
              IN  Slice(ContentOf(file), match[n].sb, match[n].eb),
     Kind |-> mapSymbolKind(c),
     StartLine |-> match[i].sr + 1,
     EndLine |-> match[i].er + 1,
     Signature |-> IF detail >= Standard
                   THEN extractSignature(match[i], ContentOf(file), detail)
                   ELSE <<>>,
     FilePath |-> file]

\* C23: when a match has more than one capture of the declaration-root set
\* (the Go "constants" query captures <<"c", "o", "n", "s", "t", " ", "a", "n", "d", " ">>type), the first of them
\* in capture order is the declaration node: startLine, endLine and
\* signature of the symbol come from it.
C23_FirstRootCaptureWins ==
    InCall =>
        \A k \in Processed :
            LET file == found.files[k]
            IN  Reached(file) =>
                    \A cm \in NamedMatches(file) :
                        LET match == MatchesOf(file, cm[1])[cm[2]]
                            roots == RootCaptures(match)
                        IN  Cardinality(roots) > 1 =>
                                \E j \in DOMAIN allSymbols :
                                    allSymbols[j] =
                                        SymbolByCapture(file, cm[1], match,
                                            CHOOSE i \in roots : \A h \in roots : i <= h)

\* the offsets of the declaration range that hold '{', ':' or '='
BodyStarts == {i \in sig.sb..(sig.eb - 1) : sig.content[i + 1] \in {"{", ":", "="}}

\* the body starts with something other than whitespace before them in the
\* declaration range
BodyStartsAfterText ==
    {i \in BodyStarts : \E j \in sig.sb..(i - 1) : ~IsSpace(sig.content[j + 1])}

\* the trimmed text of the declaration up to, excluding, the least offset of
\* S, and the whole trimmed declaration when S is empty
TextBefore(S) ==
    IF S = {} THEN TrimSpace(Slice(sig.content, sig.sb, sig.eb))
    ELSE TrimSpace(Slice(sig.content, sig.sb, CHOOSE i \in S : \A h \in S : i <= h))

\* C24 as stated: at Standard the signature is the trimmed text from the
\* declaration's start up to, excluding, the first '{', ':' or '=' of its
\* byte range, and the trimmed full text when there is none, for every
\* declaration text, one that begins with such a character included.
C24_UpToFirstBodyStart == sig.done => sig.std = TextBefore(BodyStarts)

\* C24 amended: at Standard the signature is the trimmed text from the
\* declaration's start up to, excluding, the first '{', ':' or '=' of its
\* byte range that has a character other than whitespace before it in the
\* range, and the trimmed full text when there is no such character.
C24_UpToFirstBodyStartAfterText == sig.done => sig.std = TextBefore(BodyStartsAfterText)

C24_Witness ==
    /\ sig.done
    /\ sig.sb < sig.eb
    /\ sig.content[sig.sb + 1] \in {"{", ":", "="}
    /\ BodyStartsAfterText # {}
    /\ sig.std # <<>>
    /\ sig.std # sig.full

\* the name capture of a match (the last one named "name")
NameCapture(match) ==
    CHOOSE j \in DOMAIN match :
        /\ match[j].cname = "name"
        /\ \A h \in (j + 1)..Len(match) : match[h].cname # "name"

\* the <<category, match>> pairs of a file that have a name and no
\* declaration-root capture
RootlessMatches(file) ==
    {cm \in NamedMatches(file) : RootCaptures(MatchesOf(file, cm[1])[cm[2]]) = {}}

\* C25: a match with a name capture and no declaration-root capture gives a
\* symbol whose startLine and endLine are the first and the last row of the
\* name node plus one and whose signature is empty, at every detail level.
C25_NameSpanWithoutRoot ==
    InCall =>
        \A k \in Processed :
            LET file == found.files[k]
            IN  Reached(file) =>
                    \A cm \in RootlessMatches(file) :
                        LET match == MatchesOf(file, cm[1])[cm[2]]
                            name == match[NameCapture(match)]
                        IN  /\ \E j \in DOMAIN allSymbols :
                                   allSymbols[j] =
                                       [Name |-> Slice(ContentOf(file), name.sb, name.eb),
                                        Kind |-> mapSymbolKind(cm[1]),
                                        StartLine |-> name.sr + 1,
                                        EndLine |-> name.er + 1,
                                        Signature |-> <<>>,
                                        FilePath |-> file]
                            /\ \A j \in DOMAIN allSymbols :
                                   (/\ allSymbols[j].FilePath = file
                                    /\ allSymbols[j].Kind = mapSymbolKind(cm[1])
                                    /\ \A dm \in NamedMatches(file) :
                                           mapSymbolKind(dm[1]) = mapSymbolKind(cm[1])
                                               => dm \in RootlessMatches(file))
                                   => allSymbols[j].Signature = <<>>

C25_Witness ==
    /\ pc = "done"
    /\ detail = Full
    /\ \E k \in Processed :
           /\ Reached(found.files[k])
           /\ RootlessMatches(found.files[k]) # {}
    /\ \E j \in DOMAIN allSymbols :
           /\ allSymbols[j].Signature = <<>>
           /\ allSymbols[j].StartLine = 1
    /\ \E j \in DOMAIN allSymbols : allSymbols[j].Signature # <<>>

\* two lists hold the same elements the same number of times
SameBag(a, b) ==
    \A s \in RangeOf(a) \cup RangeOf(b) :
        Cardinality({i \in DOMAIN a : a[i] = s}) = Cardinality({i \in DOMAIN b : b[i] = s})

\* the orders in which the categories of a file can be ranged over
OrdersOf(file) == IF Supported(file) THEN MapOrders(LangOf(file), file) ELSE {<<>>}

\* allSymbols after the loop of ExtractSymbols over files, the categories of
\* each file ranged over in the order ordOf gives it
RECURSIVE Batch(_, _)
Batch(files, ordOf) ==
    IF files = <<>> THEN <<>>
    ELSE LET file == files[Len(files)]
         IN  AppendFile(Batch(SubSeq(files, 1, Len(files) - 1), ordOf),
                        ExtractFromFile(file, detail, ordOf[file], file \in faulty,
                                        file \in unparsable, badQuery, ""))

\* C26: the symbols of a file are the same multiset for every iteration
\* order of the category map, and the symbols of a batch are the same
\* multiset for every order of the file list.
C26_SameMultisetInEveryOrder ==
    /\ InCall =>
           \A k \in Processed :
               LET file == found.files[k]
               IN  Reached(file) =>
                       \A ord \in OrdersOf(file) :
                           SameBag(SelectSeq(allSymbols, LAMBDA s : s.FilePath = file),
                                   extractSymbolsFromTree(ord, ContentOf(file), file,
                                       LangOf(file), detail, badQuery).symbols)
    /\ (pc = "done" /\ ~found.err) =>
           \A files \in Orders(RangeOf(found.files)) :
               \A ordOf \in [RangeOf(found.files) ->
                                 UNION {OrdersOf(f) : f \in RangeOf(found.files)}] :
                   (\A f \in RangeOf(found.files) : ordOf[f] \in OrdersOf(f))
                       => SameBag(allSymbols, Batch(files, ordOf))

C26_Witness ==
    /\ pc = "done"
    /\ Len(found.files) = MaxFiles
    /\ \A k \in Processed :
           /\ Reached(found.files[k])
           /\ Cardinality(OrdersOf(found.files[k])) > 1
           /\ \E ord \in OrdersOf(found.files[k]) :
                  SelectSeq(allSymbols, LAMBDA s : s.FilePath = found.files[k])
                      # extractSymbolsFromTree(ord, ContentOf(found.files[k]),
                            found.files[k], LangOf(found.files[k]), detail,
                            badQuery).symbols

\* the fields of the symbols other than the signature
Unsigned(symbols) ==
    [i \in DOMAIN symbols |->
        <<symbols[i].Name, symbols[i].Kind, symbols[i].StartLine, symbols[i].EndLine,
          symbols[i].FilePath>>]

\* the symbols of a file at a detail level, its categories ranged over in ord
SymbolsAt(file, ord, d) ==
    extractSymbolsFromTree(ord, ContentOf(file), file, LangOf(file), d, badQuery).symbols

\* C27: the symbols extracted from a file have the same multiset of
\* (name, kind, startLine, endLine, filePath) at Minimal, Standard and Full;
\* the detail level changes the signature only.
C27_DetailChangesSignatureOnly ==
    InCall =>
        \A k \in Processed :
            LET file == found.files[k]
            IN  Reached(file) =>
                    \A d \in DetailLevels : \A ord \in OrdersOf(file) :
                        SameBag(Unsigned(SelectSeq(allSymbols,
                                                   LAMBDA s : s.FilePath = file)),
                                Unsigned(SymbolsAt(file, ord, d)))

C27_Witness ==
    /\ pc = "done"
    /\ \E k \in Processed :
           LET file == found.files[k]
           IN  /\ Reached(file)
               /\ FileResult(k) # <<>>
               /\ SymbolsAt(file, ords[k], Minimal) # SymbolsAt(file, ords[k], Standard)
               /\ SymbolsAt(file, ords[k], Standard) # SymbolsAt(file, ords[k], Full)
               /\ \E i \in DOMAIN FileResult(k) :
                      FileResult(k)[i].StartLine # FileResult(k)[i].EndLine

\* the step of the loop of ExtractSymbols that takes the file at idx
TakesFile == pc = "loop" /\ idx <= Len(found.files) /\ idx' = idx + 1

\* C28: in a batch on one parser, when a file is parsed the grammar set
\* on the parser is the grammar of that file's language, whatever file came
\* before it, and the queries run on its tree are compiled against that
\* grammar.
C28_GrammarOfTheFileParsed ==
    [][TakesFile =>
          LET file == found.files[idx]
          IN  /\ (file \notin faulty /\ Supported(file))
                     => parserLang' = GetLanguageQueriesForFile(file)
              /\ Reached(file)
                     => allSymbols' = allSymbols \o
                            extractSymbolsFromTree(ords'[idx], ContentOf(file), file,
                                parserLang', detail, badQuery).symbols]_vars

C28_Witness ==
    /\ pc = "loop"
    /\ idx = 3
    /\ Reached(found.files[1])
    /\ Reached(found.files[2])
    /\ LangOf(found.files[1]) # LangOf(found.files[2])
    /\ parserLang = LangOf(found.files[2])
    /\ badQuery # {}

\* the number of places of a text at which p occurs
Occurrences(text, p) ==
    Cardinality({k \in 0..(Len(text) - Len(p)) : SubSeq(text, k + 1, k + Len(p)) = p})

\* the symbols of the page that have no signature
Unsignatured == {k \in DOMAIN page.symbols : page.symbols[k].Signature = <<>>}

\* C29: the text rendered for a symbol with an empty signature contains
\* the symbol's name at Minimal, Standard and Full: the report holds each
\* name at least once for every such symbol of that name.
C29_NameOfUnsignaturedRendered ==
    page.done =>
        \A k \in Unsignatured :
            /\ Contains(LineOfCall(page.symbols[k]), page.symbols[k].Name)
            /\ Occurrences(page.text, page.symbols[k].Name)
                   >= Cardinality({j \in Unsignatured :
                                      page.symbols[j].Name = page.symbols[k].Name})

====
